---- MODULE Spec2Model ----
(***************************************************************************)
(* Multi-modal access (MMA) resolution of sdss_brain.                      *)
(*                                                                         *)
(* The model follows the construction of one MMAccess object               *)
(* (AccessMixIn + MMAMixIn, python/sdss_brain/mixins): the constructor     *)
(* stores its arguments, _determine_inputs turns them into a filename or   *)
(* an objectid, the mode dispatch runs _do_local / _do_remote, and the     *)
(* final sanity check asserts that data_origin was set.  After a           *)
(* successful construction the attributes of the object can be assigned    *)
(* by the caller.                                                          *)
(*                                                                         *)
(* A second specification, SpecProfile, follows one ApiProfile of the      *)
(* service catalog (python/sdss_brain/api/manager.py): its construction,   *)
(* change_domain, change_path, construct_route, the reverse lookup of the  *)
(* ApiManager and the authorization header of a request of the client.     *)
(*                                                                         *)
(* SpecRegistry follows the ApiManager instances of the process and the    *)
(* construction of an ApiHandler (api/manager.py, api/client.py,           *)
(* config.py, api/handler.py); SpecAccess the access property of one       *)
(* owner (mixins/access.py); SpecClient the tokens of a profile, the       *)
(* requests of a synchronous and an asynchronous client, and the with      *)
(* blocks (api/manager.py, api/client.py, api/io.py, core.py).             *)
(*                                                                         *)
(* Python values: None is the value None below; truthiness is Truthy.      *)
(* Paths are strings; os.path.abspath is Abspath.                          *)
(***************************************************************************)
EXTENDS Naturals, Sequences, FiniteSets, TLC

VARIABLES
    filename,       \* self.filename
    objectid,       \* self.objectid
    data_origin,    \* self.data_origin
    mode,           \* self.mode
    release,        \* self._release
    forcedownload,  \* self._forcedownload
    ignore_db,      \* self._ignore_db
    db,             \* self._db (a DatabaseHandler, or None)
    data_input,     \* the data_input argument of the constructor
    args,           \* the filename and objectid arguments of the constructor
    parsed_input,   \* the local variable parsed_input of _determine_inputs
    ee,             \* the BrainError caught in auto mode (line 108)
    path_name,      \* the class attribute path_name
    path_params,    \* self.path_params
    disk,           \* the files that exist on the local disk
    pc,             \* position of the constructor
    exc,            \* the exception the last operation raised
    calls,          \* the calls made so far to methods and collaborators
    fullpath,       \* the local variable fullpath of _do_local
    inmode,         \* the mode at the entry of the dispatch (lines 89, 101-105)
    nassign,        \* attribute assignments made after construction
    apis,           \* the module attribute apis: the names of the API profiles, in order
    api_name,       \* ApiProfile.name
    current_domain, \* ApiProfile.current_domain
    url,            \* ApiProfile.url
    auth_type,      \* ApiProfile.auth_type
    ppc,            \* position of the profile: new, ready, or failed in its constructor
    api_exc,        \* the exception the last call on the profile or the manager raised
    last,           \* the last call on the profile or the manager, with its arguments
    repeated,       \* the last call repeated the call before it
    ncalls,         \* calls made on the constructed profile
    sel,            \* the test and public flags most recently given to the profile
    routed,         \* the last construct_route: its route, its result, the profile then
    ident,          \* the last identify_api_from_url: its url and its result
    headers,        \* the headers of the last request of the client
    managers,       \* the ApiManager instances of the process, by the module that holds them
    handler,        \* the last ApiHandler constructed: its url, its api, what it raised
    rlast,          \* the last call made through a registry, with its arguments
    rcalls,         \* calls made through the registries
    arelease,       \* the release of the owner of the path resolver (inst._release)
    access,         \* inst._access: the sdss_access instance of the owner, or none
    nbuilt,         \* sdss_access instances created so far
    alast,          \* the last operation on the owner
    acalls,         \* operations made on the owner
    token_cache,    \* the access and refresh tokens kept for the profile of the client
    logins,         \* login exchanges sent to the token route
    token,          \* the last get_token or refresh: what it raised and returned
    cauth,          \* the auth_type of the profile of the client
    cuser,          \* the user of the client is validated
    clients,        \* a SDSSClient and a SDSSAsyncClient given the same requests
    block,          \* the last with block: what its body raised, what its caller saw
    clast,          \* the last call on the profile or the clients
    ccalls          \* calls made on the profile or the clients

mmaVars == <<filename, objectid, data_origin, mode, release, forcedownload, ignore_db,
             db, data_input, args, parsed_input, ee, path_name, path_params, disk, pc,
             exc, calls, fullpath, inmode, nassign>>

apiVars == <<apis, api_name, current_domain, url, auth_type, ppc, api_exc, last, repeated,
             ncalls, sel, routed, ident, headers>>

regVars == <<managers, handler, rlast, rcalls>>

\* the variables of the specifications that follow the MMA object and the profile
accVars == <<arelease, access, nbuilt, alast, acalls>>

cliVars == <<token_cache, logins, token, cauth, cuser, clients, block, clast, ccalls>>

extVars == <<regVars, accVars, cliVars>>

vars == <<mmaVars, apiVars, extVars>>

-----------------------------------------------------------------------------
(* Bounds of the model *)

\* attribute assignments tried on a constructed object
MaxAssign == 2

\* calls made on a constructed profile
MaxCalls == 3

\* calls made through the registries
MaxRegistryCalls == 2

\* operations made on the owner of a path resolver
MaxAccessCalls == 5

\* calls made on the profile of the client and on the clients
MaxClientCalls == 2

-----------------------------------------------------------------------------
(* Python values *)

None == "<None>"

\* bool(v) of a str / None / pathlib.Path value
Truthy(v) == v /= None /\ v /= ""

\* a value of data_input that is neither a str nor a pathlib.Path
NotAString == "<int 42>"

\* the working directory used by os.path.abspath
Cwd == "/cwd/"

AbsolutePaths == {"/sas/toy_object_A.txt", "/cwd/a.fits"}

\* os.path.abspath(p)
Abspath(p) == IF p \in AbsolutePaths THEN p ELSE Cwd \o p

\* the exceptions
NoExc == [type |-> "None", msg |-> ""]
Raise(t, m) == [type |-> t, msg |-> m]

-----------------------------------------------------------------------------
(* The sets the constructor arguments and the configuration are drawn from *)

ObjectIds == {"A"}
FilenameArgs == {None, "", "a.fits", "/sas/toy_object_A.txt"}
ObjectidArgs == {None, ""} \cup ObjectIds
DataInputs == {None, "a.fits", NotAString}
ModeArgs == {None, "local", "remote", "auto", "bogus"}
\* the configuration: its defaults (mode auto, no download, database not ignored) and
\* two custom configurations
Configs == {[mode |-> "auto", download |-> FALSE, ignore_db |-> FALSE],
            [mode |-> "local", download |-> TRUE, ignore_db |-> FALSE],
            [mode |-> "remote", download |-> FALSE, ignore_db |-> TRUE]}
Releases == {"DR15", "DR16"}
\* use_db: nothing, a handler without a database, a handler on a database that is
\* not connected, a handler on a connected database
DbInputs == {None, "nodb", "disconnected", "connected"}
PathNames == {None, "toy"}
DiskPaths == {"/sas/toy_object_A.txt", "/cwd/a.fits"}

\* path_params: None, a str, or the dictionary {'object': v}
PPNone == [kind |-> "none", object |-> None]
PPStr == [kind |-> "str", object |-> None]
PPDict(v) == [kind |-> "dict", object |-> v]

-----------------------------------------------------------------------------
(* Collaborators: the sdss_access templates and the database handler *)

\* str(v)
Str(v) == IF v = None THEN "None" ELSE v

\* access.full(path_name, **path_params) for the template
\* <dir>/toy_object_{object}.txt
TemplatePath(v) == "/sas/toy_object_" \o Str(v) \o ".txt"

\* access.extract(path_name, filename): the parameters of a path that matches the
\* template, nothing otherwise
Extract(p) == IF p = TemplatePath("A") THEN "A" ELSE None

\* DatabaseHandler(use_db) if use_db else None
MakeDb(use_db) == IF use_db /= None THEN use_db ELSE None

\* DatabaseHandler.connected: self.db.connected if self.db else None
Connected(d) == d = "connected"

\* variant: the database is taken when it is to be ignored
UsableDbIgnoreInverted(d, ign) == d /= None /\ Connected(d) /\ ign

\* line 151: self.db and self.db.connected and not self._ignore_db
UsableDb(d, ign) == d /= None /\ Connected(d) /\ ~ign

-----------------------------------------------------------------------------
(* AccessMixIn *)

\* bool(path_params)
PPTruthy(pp) == pp.kind /= "none"

\* _setup_access(params, origin): of the template keys builds the dictionary
\* path_params; a params that is not a dictionary is a TypeError
SetupAccess(pn, pp, params) ==
    IF ~Truthy(pn) THEN [exc |-> NoExc, path_params |-> pp]
    ELSE IF PPTruthy(params) /\ params.kind /= "dict"
         THEN [exc |-> Raise("TypeError", "the path_params attribute must be a dictionary"),
               path_params |-> pp]
    ELSE IF PPTruthy(params) THEN [exc |-> NoExc, path_params |-> PPDict(params.object)]
    ELSE [exc |-> NoExc, path_params |-> PPDict(None)]

\* check_access_params: the assertions on path_name and path_params, and the
\* conversion of the None values to strings when no filename is set
CheckAccessParams(fn, pn, pp) ==
    IF ~Truthy(pn)
    THEN [exc |-> Raise("AssertionError", "the path_name attribute cannot be None"),
          path_params |-> pp]
    ELSE IF ~PPTruthy(pp)
    THEN [exc |-> Raise("AssertionError", "the path_params attribute cannot be None"),
          path_params |-> pp]
    ELSE IF pp.kind /= "dict"
    THEN [exc |-> Raise("AssertionError", "the path_params attribute must be a dictionary"),
          path_params |-> pp]
    ELSE IF fn = None /\ ~Truthy(pp.object)
    THEN [exc |-> NoExc, path_params |-> PPDict(Str(pp.object))]
    ELSE [exc |-> NoExc, path_params |-> pp]

\* get_full_path(): access.full answers a path ("ok"), raises a TypeError, which
\* becomes a BrainError, or raises another Exception, which is only warned about
GetFullPath(fn, pn, pp, outcome) ==
    LET c == CheckAccessParams(fn, pn, pp) IN
    IF c.exc /= NoExc THEN [exc |-> c.exc, path_params |-> c.path_params, fullpath |-> None]
    ELSE IF outcome = "TypeError"
    THEN [exc |-> Raise("BrainError", "Bad input type for sdss_access"),
          path_params |-> c.path_params, fullpath |-> None]
    ELSE IF outcome = "Exception"
    THEN [exc |-> NoExc, path_params |-> c.path_params, fullpath |-> None]
    ELSE [exc |-> NoExc, path_params |-> c.path_params,
          fullpath |-> TemplatePath(c.path_params.object)]

\* download(): sdss_access fetches the file of the template ("ok") or fails
Download(fn, pn, pp, dsk, outcome) ==
    LET c == CheckAccessParams(fn, pn, pp) IN
    IF c.exc /= NoExc
    THEN [exc |-> c.exc, path_params |-> c.path_params, filename |-> fn, disk |-> dsk]
    ELSE IF outcome /= "ok"
    THEN [exc |-> Raise("AccessError", "download failed"),
          path_params |-> c.path_params, filename |-> fn, disk |-> dsk]
    ELSE [exc |-> NoExc, path_params |-> c.path_params,
          filename |-> TemplatePath(c.path_params.object),
          disk |-> dsk \cup {TemplatePath(c.path_params.object)}]

AccessOutcomes == {"ok", "TypeError", "Exception"}
DownloadOutcomes == {"ok", "error"}

-----------------------------------------------------------------------------
(* MMAMixIn._determine_inputs *)

\* what _parse_input can return: an empty dictionary, something that is no
\* dictionary, or a dictionary whose filename and objectid are each the input or None
NotParsed == [kind |-> "none", filename |-> None, objectid |-> None]
ParseResults(di) ==
    {[kind |-> "empty", filename |-> None, objectid |-> None],
     [kind |-> "notdict", filename |-> None, objectid |-> None]}
    \cup {[kind |-> "dict", filename |-> f, objectid |-> o] : f \in {None, di}, o \in {None, di}}

\* what _set_access_path_params can leave in path_params: {'object': objectid},
\* None, or a str
HookResults == {"ok", "none", "notdict"}
HookParams(hook, oid) ==
    IF hook = "ok" THEN PPDict(oid) ELSE IF hook = "none" THEN PPNone ELSE PPStr

\* lines 192-207: the parsing of data_input
ParseInput(di, fn, oid, parsed) ==
    IF ~Truthy(di)
    THEN [exc |-> NoExc, filename |-> fn, objectid |-> oid, parsed_input |-> NotParsed]
    ELSE IF ~(fn = None /\ oid = None)
    THEN [exc |-> Raise("AssertionError", "if input is set, filename and objectid cannot be set."),
          filename |-> fn, objectid |-> oid, parsed_input |-> NotParsed]
    ELSE IF di = NotAString
    THEN [exc |-> Raise("TypeError", "input must be a string or pathlib.Path"),
          filename |-> fn, objectid |-> oid, parsed_input |-> NotParsed]
    ELSE IF parsed.kind = "empty"
    THEN [exc |-> NoExc, filename |-> di, objectid |-> oid, parsed_input |-> parsed]
    ELSE IF parsed.kind = "notdict"
    THEN [exc |-> Raise("AssertionError", "return value of _parse_input must be a dict"),
          filename |-> fn, objectid |-> oid, parsed_input |-> parsed]
    ELSE [exc |-> NoExc, filename |-> parsed.filename, objectid |-> parsed.objectid,
          parsed_input |-> parsed]

\* variant: an empty filename or objectid counts as missing
NoInputsFalsy(fn, oid) == ~Truthy(fn) /\ ~Truthy(oid)

\* line 210: neither a filename nor an objectid
NoInputs(fn, oid) == fn = None /\ oid = None

\* variant: the objectid is kept beside the filename
MisalignedKeepObjectid(fn, oid) == oid

\* lines 227-228: a filename discards the objectid
Misaligned(fn, oid) == IF Truthy(fn) THEN None ELSE oid

\* _update_access_params: path_params from the parameters extracted of the
\* filename, or from _set_access_path_params for an objectid
UpdateAccessParams(fn, oid, pn, pp, hook) ==
    IF ~Truthy(pn) THEN [exc |-> NoExc, path_params |-> pp]
    ELSE IF Truthy(fn)
    THEN IF Truthy(Extract(fn)) THEN SetupAccess(pn, pp, PPDict(Extract(fn)))
         ELSE [exc |-> NoExc, path_params |-> pp]
    ELSE IF Truthy(oid)
    THEN SetupAccess(pn, HookParams(hook, oid), HookParams(hook, oid))
    ELSE [exc |-> NoExc, path_params |-> pp]

\* _determine_inputs as a whole: the attributes it leaves and the exception it raises
DetermineInputsResult(di, fn, oid, md, pn, pp, parsed, hook) ==
    LET p == ParseInput(di, fn, oid, parsed)
        log == IF p.parsed_input /= NotParsed THEN <<"_parse_input">> ELSE <<>>
    IN
    IF p.exc /= NoExc
    THEN [exc |-> p.exc, filename |-> p.filename, objectid |-> p.objectid,
          path_params |-> pp, parsed_input |-> p.parsed_input, calls |-> log]
    ELSE IF NoInputs(p.filename, p.objectid)
    THEN [exc |-> Raise("BrainError", "no inputs defined. filename and objectid are both None"),
          filename |-> p.filename, objectid |-> p.objectid, path_params |-> pp,
          parsed_input |-> p.parsed_input, calls |-> log]
    ELSE
    LET fn2 == IF Truthy(p.filename) THEN Abspath(p.filename) ELSE p.filename
        u == UpdateAccessParams(fn2, p.objectid, pn, pp, hook)
    IN
    IF u.exc /= NoExc
    THEN [exc |-> u.exc, filename |-> fn2, objectid |-> p.objectid,
          path_params |-> u.path_params, parsed_input |-> p.parsed_input, calls |-> log]
    ELSE [exc |-> IF Truthy(fn2) /\ md = "remote"
                  THEN Raise("BrainError", "filename not allowed in remote mode.")
                  ELSE NoExc,
          filename |-> fn2, objectid |-> Misaligned(fn2, p.objectid),
          path_params |-> u.path_params, parsed_input |-> p.parsed_input, calls |-> log]

-----------------------------------------------------------------------------
(* MMAMixIn._do_local and _do_remote *)

\* "True" / "False"
Bool(b) == IF b THEN "True" ELSE "False"

\* variant: the file counts as found when it is not on the disk
FileFoundInverted(fp, dsk) == Truthy(fp) /\ fp \notin dsk

\* variant: os.path.exists of the filename, which is not set, instead of fullpath
FileFoundNever(fp, dsk) == Truthy(fp) /\ None \in dsk

\* line 159: fullpath and os.path.exists(fullpath)
FileFound(fp, dsk) == Truthy(fp) /\ fp \in dsk

\* variant: mode and origin are set before the file is looked for
LocalByFileOriginFirst(fn, md, org, pp, dsk) ==
    [exc |-> IF fn \in dsk THEN NoExc ELSE Raise("BrainError", "input file not found"),
     filename |-> fn, mode |-> "local", data_origin |-> "file",
     path_params |-> pp, disk |-> dsk, fullpath |-> None,
     calls |-> <<"filename.exists=" \o Bool(fn \in dsk)>>]

\* lines 139-146: a filename is checked on the disk
LocalByFile(fn, md, org, pp, dsk) ==
    IF fn \in dsk
    THEN [exc |-> NoExc, filename |-> fn, mode |-> "local", data_origin |-> "file",
          path_params |-> pp, disk |-> dsk, fullpath |-> None,
          calls |-> <<"filename.exists=True">>]
    ELSE [exc |-> Raise("BrainError", "input file not found"),
          filename |-> fn, mode |-> md, data_origin |-> org,
          path_params |-> pp, disk |-> dsk, fullpath |-> None,
          calls |-> <<"filename.exists=False">>]

\* lines 156-170: the full path, then the file of that path or the download
LocalByPath(fn, md, org, fdl, pn, pp, dsk, aout, dout) ==
    LET g == GetFullPath(fn, pn, pp, aout)
        log == IF Truthy(g.fullpath)
               THEN <<"get_full_path", "os.path.exists=" \o Bool(g.fullpath \in dsk)>>
               ELSE <<"get_full_path">>
    IN
    IF g.exc /= NoExc
    THEN [exc |-> g.exc, filename |-> fn, mode |-> md, data_origin |-> org,
          path_params |-> g.path_params, disk |-> dsk, fullpath |-> g.fullpath,
          calls |-> <<"get_full_path">>]
    ELSE IF FileFound(g.fullpath, dsk)
    THEN [exc |-> NoExc, filename |-> g.fullpath, mode |-> "local", data_origin |-> "file",
          path_params |-> g.path_params, disk |-> dsk, fullpath |-> g.fullpath,
          calls |-> log]
    ELSE IF fdl
    THEN LET d == Download(fn, pn, g.path_params, dsk, dout) IN
         [exc |-> d.exc, filename |-> d.filename, mode |-> md,
          data_origin |-> IF d.exc = NoExc THEN "file" ELSE org,
          path_params |-> d.path_params, disk |-> d.disk, fullpath |-> g.fullpath,
          calls |-> log \o <<"download">>]
    ELSE [exc |-> Raise("BrainError", "failed to retrieve data using input parameters."),
          filename |-> fn, mode |-> md, data_origin |-> org,
          path_params |-> g.path_params, disk |-> dsk, fullpath |-> g.fullpath,
          calls |-> log]

\* _do_local as a whole
DoLocalResult(fn, oid, md, org, d, ign, fdl, pn, pp, dsk, aout, dout) ==
    IF Truthy(fn) THEN LocalByFile(fn, md, org, pp, dsk)
    ELSE IF Truthy(oid)
    THEN IF UsableDb(d, ign)
         THEN [exc |-> NoExc, filename |-> fn, mode |-> "local", data_origin |-> "db",
               path_params |-> pp, disk |-> dsk, fullpath |-> None,
               calls |-> <<"db.connected">>]
         ELSE LET r == LocalByPath(fn, md, org, fdl, pn, pp, dsk, aout, dout) IN
              [r EXCEPT !.calls = (IF d /= None THEN <<"db.connected">> ELSE <<>>) \o @]
    ELSE [exc |-> NoExc, filename |-> fn, mode |-> md, data_origin |-> org,
          path_params |-> pp, disk |-> dsk, fullpath |-> None, calls |-> <<>>]

\* variants: every caught error goes on to remote; none does
FallbackAlways(fn) == TRUE
FallbackNever(fn) == FALSE

\* line 110: the caught error is raised again for a filename
FallbackAllowed(fn) == ~Truthy(fn)

\* variant: _do_remote sets the mode and leaves the origin
DoRemoteResultNoOrigin(fn, md, org) ==
    IF Truthy(fn)
    THEN [exc |-> Raise("BrainError", "filename not allowed in remote mode."),
          mode |-> md, data_origin |-> org]
    ELSE [exc |-> NoExc, mode |-> "remote", data_origin |-> org]

\* _do_remote as a whole
DoRemoteResult(fn, md, org) ==
    IF Truthy(fn)
    THEN [exc |-> Raise("BrainError", "filename not allowed in remote mode."),
          mode |-> md, data_origin |-> org]
    ELSE [exc |-> NoExc, mode |-> "remote", data_origin |-> "api"]

-----------------------------------------------------------------------------
(* The values of the profile variables before a profile exists *)

\* no domain selected
NoDomain == [kind |-> "None", key |-> None, name |-> None, public |-> FALSE]

\* the empty string, of a url or of a path
Empty == <<>>

\* no call made
NoCall == [op |-> "None", domain |-> None, port |-> None, ngrokid |-> None,
           test |-> None, public |-> None, arg |-> Empty]

NoFlags == [test |-> None, public |-> None]
NoRoute == [route |-> Empty, url |-> Empty, domain |-> None, sel |-> NoFlags]
NoIdent == [url |-> Empty, api |-> None, domain |-> None]

\* no profile is in use
NoProfile ==
    /\ apis = <<>>
    /\ api_name = None
    /\ current_domain = NoDomain
    /\ url = Empty
    /\ auth_type = None
    /\ ppc = "none"
    /\ api_exc = NoExc
    /\ last = NoCall
    /\ repeated = FALSE
    /\ ncalls = 0
    /\ sel = NoFlags
    /\ routed = NoRoute
    /\ ident = NoIdent
    /\ headers = None

-----------------------------------------------------------------------------
(* The values of the other variables while their part of the program is idle *)

\* no ApiManager is followed
NoRegistry ==
    /\ managers = <<>>
    /\ handler = None
    /\ rlast = None
    /\ rcalls = 0

\* inst._access is None
NoAccess == [release |-> None, public |-> FALSE, serial |-> 0]

\* no owner of a path resolver is followed
NoOwner ==
    /\ arelease = None
    /\ access = NoAccess
    /\ nbuilt = 0
    /\ alast = "None"
    /\ acalls = 0

\* no token is kept
NoTokens == [access |-> None, refresh |-> None]

\* nothing called for a token
NoToken == [exc |-> NoExc, ret |-> None]

\* no with block was left
NoBlock == [owner |-> None, raised |-> NoExc, propagated |-> NoExc, closed |-> FALSE]

\* no client is followed
NoClients ==
    /\ token_cache = NoTokens
    /\ logins = 0
    /\ token = NoToken
    /\ cauth = None
    /\ cuser = FALSE
    /\ clients = <<>>
    /\ block = NoBlock
    /\ clast = "None"
    /\ ccalls = 0

-----------------------------------------------------------------------------
(* The construction of one object, step by step *)

Init ==
    /\ filename = None
    /\ objectid = None
    /\ data_origin = None
    /\ mode = None
    /\ release = None
    /\ forcedownload = FALSE
    /\ ignore_db = FALSE
    /\ db = None
    /\ data_input = None
    /\ args = [filename |-> None, objectid |-> None]
    /\ parsed_input = NotParsed
    /\ ee = NoExc
    /\ path_name \in PathNames
    /\ path_params = PPNone
    /\ disk \in SUBSET DiskPaths
    /\ pc = "new"
    /\ exc = NoExc
    /\ calls = <<>>
    /\ fullpath = None
    /\ inmode = None
    /\ nassign = 0
    /\ NoProfile
    /\ NoRegistry
    /\ NoOwner
    /\ NoClients

\* AccessMixIn.__init__ and lines 83-92 of MMAMixIn.__init__: the arguments and the
\* configuration become the attributes of the object
New ==
    /\ pc = "new"
    /\ \E di \in DataInputs, fa \in FilenameArgs, oa \in ObjectidArgs, ma \in ModeArgs,
          config \in Configs, ra \in Releases, dl \in BOOLEAN, ig \in BOOLEAN,
          use_db \in DbInputs :
        /\ db' = MakeDb(use_db)
        /\ filename' = fa
        /\ objectid' = oa
        /\ data_origin' = None
        /\ mode' = (IF Truthy(ma) THEN ma ELSE config.mode)
        /\ inmode' = (IF Truthy(ma) THEN ma ELSE config.mode)
        /\ release' = ra
        /\ forcedownload' = (dl \/ config.download)
        /\ ignore_db' = (ig \/ config.ignore_db)
        /\ data_input' = di
        /\ args' = [filename |-> fa, objectid |-> oa]
        /\ path_params' = SetupAccess(path_name, PPNone, PPNone).path_params
    /\ pc' = "determine"
    /\ UNCHANGED <<parsed_input, ee, path_name, disk, exc, calls, fullpath, nassign>>
    /\ UNCHANGED <<apiVars, extVars>>

\* line 95: self._determine_inputs(data_input)
DetermineInputs ==
    /\ pc = "determine"
    /\ \E parsed \in ParseResults(data_input), hook \in HookResults :
        LET r == DetermineInputsResult(data_input, filename, objectid, mode, path_name,
                                       path_params, parsed, hook)
        IN
        /\ filename' = r.filename
        /\ objectid' = r.objectid
        /\ path_params' = r.path_params
        /\ parsed_input' = r.parsed_input
        /\ calls' = calls \o r.calls
        /\ exc' = r.exc
        /\ pc' = (IF r.exc = NoExc THEN "asserts" ELSE "raised")
    /\ UNCHANGED <<data_origin, mode, release, forcedownload, ignore_db, db, data_input,
                   args, ee, path_name, disk, fullpath, inmode, nassign>>
    /\ UNCHANGED <<apiVars, extVars>>

\* lines 97-98: the assertions on the mode and on the inputs
AssertInputs ==
    /\ pc = "asserts"
    /\ exc' = (IF mode \notin {"auto", "local", "remote"}
               THEN Raise("AssertionError", "mode must be auto, local, or remote")
               ELSE IF ~(filename /= None \/ objectid /= None)
               THEN Raise("AssertionError", "no inputs set.")
               ELSE NoExc)
    /\ pc' = (IF exc' = NoExc THEN "dispatch" ELSE "raised")
    /\ UNCHANGED <<filename, objectid, data_origin, mode, release, forcedownload, ignore_db,
                   db, data_input, args, parsed_input, ee, path_name, path_params, disk, calls,
                   fullpath, inmode, nassign>>
    /\ UNCHANGED <<apiVars, extVars>>

\* the effect of a call of _do_local that leaves the constructor at onBrainError when
\* it raises a BrainError
DoLocal(onBrainError) ==
    \E aout \in AccessOutcomes, dout \in DownloadOutcomes :
        LET r == DoLocalResult(filename, objectid, mode, data_origin, db, ignore_db,
                               forcedownload, path_name, path_params, disk, aout, dout)
        IN
        /\ filename' = r.filename
        /\ mode' = r.mode
        /\ data_origin' = r.data_origin
        /\ path_params' = r.path_params
        /\ disk' = r.disk
        /\ fullpath' = r.fullpath
        /\ calls' = calls \o <<"_do_local">> \o r.calls
        /\ exc' = r.exc
        /\ pc' = (IF r.exc = NoExc THEN "check"
                  ELSE IF r.exc.type = "BrainError" THEN onBrainError
                  ELSE "raised")
        /\ ee' = (IF r.exc.type = "BrainError" /\ onBrainError = "except" THEN r.exc ELSE ee)
        /\ UNCHANGED <<objectid, release, forcedownload, ignore_db, db, data_input, args,
                       parsed_input, path_name, inmode, nassign>>

\* the effect of a call of _do_remote
DoRemote ==
    LET r == DoRemoteResult(filename, mode, data_origin) IN
    /\ mode' = r.mode
    /\ data_origin' = r.data_origin
    /\ calls' = calls \o <<"_do_remote">>
    /\ exc' = r.exc
    /\ pc' = (IF r.exc = NoExc THEN "check" ELSE "raised")
    /\ UNCHANGED <<filename, objectid, release, forcedownload, ignore_db, db, data_input,
                   args, parsed_input, ee, path_name, path_params, disk, fullpath, inmode,
                   nassign>>

\* lines 101-102: mode == 'local'
LocalMode ==
    /\ pc = "dispatch"
    /\ mode = "local"
    /\ DoLocal("raised")
    /\ UNCHANGED <<apiVars, extVars>>

\* lines 103-104: mode == 'remote'
RemoteMode ==
    /\ pc = "dispatch"
    /\ mode = "remote"
    /\ DoRemote
    /\ UNCHANGED <<apiVars, extVars>>

\* lines 105-107: mode == 'auto', the try block
AutoLocal ==
    /\ pc = "dispatch"
    /\ mode = "auto"
    /\ DoLocal("except")
    /\ UNCHANGED <<apiVars, extVars>>

\* lines 108-115: the handler of a BrainError of the try block
AutoExcept ==
    /\ pc = "except"
    /\ IF ~FallbackAllowed(filename)
       THEN /\ pc' = "raised"
            /\ UNCHANGED <<filename, objectid, data_origin, mode, release, forcedownload,
                           ignore_db, db, data_input, args, parsed_input, ee, path_name,
                           path_params, disk, exc, calls, fullpath, inmode, nassign>>
       ELSE DoRemote
    /\ UNCHANGED <<apiVars, extVars>>

\* line 118: the sanity check on data_origin; the constructor returns
SanityCheck ==
    /\ pc = "check"
    /\ exc' = (IF data_origin \in {"file", "db", "api"} THEN NoExc
               ELSE Raise("AssertionError", "data_origin is not properly set."))
    /\ pc' = (IF exc' = NoExc THEN "done" ELSE "raised")
    /\ UNCHANGED <<filename, objectid, data_origin, mode, release, forcedownload, ignore_db,
                   db, data_input, args, parsed_input, ee, path_name, path_params, disk, calls,
                   fullpath, inmode, nassign>>
    /\ UNCHANGED <<apiVars, extVars>>

-----------------------------------------------------------------------------
(* The constructed object: assignments to its attributes *)

Origins == {None, "file", "db", "api"}

\* obj.data_origin = v: data_origin is a plain attribute (line 86), the assignment
\* stores the value
SetDataOrigin ==
    /\ pc = "done"
    /\ nassign < MaxAssign
    /\ \E v \in Origins : data_origin' = v
    /\ exc' = NoExc
    /\ nassign' = nassign + 1
    /\ UNCHANGED <<filename, objectid, mode, release, forcedownload, ignore_db, db,
                   data_input, args, parsed_input, ee, path_name, path_params, disk, pc,
                   calls, fullpath, inmode>>
    /\ UNCHANGED <<apiVars, extVars>>

\* obj.release = v: the setter of the release property raises
SetRelease ==
    /\ pc = "done"
    /\ nassign < MaxAssign
    /\ \E v \in Releases :
        exc' = Raise("BrainError",
                     "the release cannot be changed once the object has been instantiated.")
    /\ nassign' = nassign + 1
    /\ UNCHANGED <<filename, objectid, data_origin, mode, release, forcedownload, ignore_db,
                   db, data_input, args, parsed_input, ee, path_name, path_params, disk, pc,
                   calls, fullpath, inmode>>
    /\ UNCHANGED <<apiVars, extVars>>

Next ==
    \/ New
    \/ DetermineInputs
    \/ AssertInputs
    \/ LocalMode
    \/ RemoteMode
    \/ AutoLocal
    \/ AutoExcept
    \/ SanityCheck
    \/ SetDataOrigin
    \/ SetRelease

Spec == Init /\ [][Next]_vars

-----------------------------------------------------------------------------
(* The service catalog: etc/api_profiles.yml as manager.py loads it        *)
(*                                                                         *)
(* A path and a url are strings; a string is the sequence of its parts,    *)
(* "/" and "://" included, so that 'marvin/api' is <<"marvin", "/", "api">> *)
(* and str.startswith, the operator in, lstrip and + are computed on the    *)
(* sequence.  No part used below is a substring of another part.           *)

\* the keys of the dictionary domains, in the order of the file
DomainKeys == <<"sas", "api", "magrathea", "local", "dr15">>

\* domains[k]: the Domain object of the key k
DomainOf(k) ==
    [kind |-> "Domain", key |-> k,
     name |-> CASE k = "sas" -> "sas.sdss.org"
                [] k = "api" -> "api.sdss.org"
                [] k = "magrathea" -> "magrathea.sdss.org"
                [] k = "local" -> "localhost"
                [] k = "dr15" -> "dr15.sdss.org",
     public |-> (k = "dr15")]

\* the profile marvin of the tests, and a profile that takes the defaults of
\* ApiProfileModel for mirrors, api and auth
ApiNames == {"marvin", "webapi"}

\* apis[name]: the validated ApiProfileModel as a dictionary (self.info)
InfoOf(name) ==
    IF name = "marvin"
    THEN [base |-> <<"marvin">>, domains |-> <<"sas", "dr15">>, mirrors |-> <<"magrathea">>,
          stems |-> [test |-> "test", public |-> "public", affix |-> "prefix"],
          api |-> TRUE, auth |-> "token"]
    ELSE [base |-> <<"api">>, domains |-> <<"api", "sas">>, mirrors |-> <<>>,
          stems |-> [test |-> "dev", public |-> None, affix |-> "suffix"],
          api |-> FALSE, auth |-> "netrc"]

\* the catalogs: the profile of the tests alone, and the two profiles
Catalogs == {<<"marvin">>, <<"marvin", "webapi">>}

\* name in apis
InCatalog(cat, name) == \E i \in 1..Len(cat) : cat[i] = name

\* the arguments of the calls
NameArgs == ApiNames \cup {"bogus"}
DomainArgs == {None, "sas", "api", "magrathea", "local", "dr15"}
Ports == {None, "0", "5000"}
Ngrokids == {None, "12345"}
Flags == {None, "True", "False"}

\* bool(v) of an int or None argument; the int 0 is "0"
IntTruthy(v) == v /= None /\ v /= "0"

\* bool(v) of a bool or None argument
FlagTruthy(v) == v = "True"

\* 'local' in s, for the strings a domain name can be
HasLocal(s) == s \in {"localhost"} \cup {"localhost:" \o p : p \in Ports \ {None}}

-----------------------------------------------------------------------------
(* Strings and urls *)

\* s2.startswith(s1)
StartsWith(s2, s1) == Len(s1) <= Len(s2) /\ SubSeq(s2, 1, Len(s1)) = s1

\* s1 in s2
Contains(s2, s1) ==
    \E i \in 1..(Len(s2) + 1) :
        i + Len(s1) - 1 <= Len(s2) /\ SubSeq(s2, i, i + Len(s1) - 1) = s1

\* s.lstrip('/')
RECURSIVE Lstrip(_)
Lstrip(s) == IF s /= Empty /\ Head(s) = "/" THEN Lstrip(Tail(s)) ELSE s

\* os.path.join(a, b)
PathJoin(a, b) ==
    IF b /= Empty /\ Head(b) = "/" THEN b
    ELSE IF a = Empty \/ a[Len(a)] = "/" THEN a \o b
    ELSE a \o <<"/">> \o b

\* strjoin(str1, str2)
Strjoin(str1, str2) ==
    IF ~StartsWith(str2, str1)
    THEN IF str2 /= Empty THEN PathJoin(str1, Lstrip(str2)) ELSE str1
    ELSE str2

\* urlparse(u): the scheme, the netloc and the path; params, query and fragment
\* are empty in every url of the model
Urlparse(u) ==
    IF Len(u) >= 3 /\ u[2] = "://"
    THEN [scheme |-> <<u[1]>>, netloc |-> <<u[3]>>, path |-> SubSeq(u, 4, Len(u))]
    ELSE [scheme |-> Empty, netloc |-> Empty, path |-> u]

\* urlunparse((scheme, netloc, path, '', '', '')): a path that does not start
\* with '/' gets one after a netloc
Urlunparse(c) ==
    LET path == IF c.netloc /= Empty /\ c.path /= Empty /\ Head(c.path) /= "/"
                THEN <<"/">> \o c.path ELSE c.path
    IN  IF c.netloc /= Empty THEN c.scheme \o <<"://">> \o c.netloc \o path
        ELSE c.path

\* urljoin(url1, url2)
Urljoin(url1, url2) ==
    LET e == Urlparse(url1)
        t == Urlparse(url2)
    IN  Urlunparse([scheme |-> Strjoin(e.scheme, t.scheme),
                    netloc |-> Strjoin(e.netloc, t.netloc),
                    path |-> Strjoin(e.path, t.path)])

\* url.startswith('http')
StartsWithHttp(u) == u /= Empty /\ u[1] \in {"http", "https"}

-----------------------------------------------------------------------------
(* ApiProfile *)

\* x in s, for a list or the keys of a dictionary
InSeq(s, x) == \E i \in 1..Len(s) : s[i] = x

\* _get_domains(mirror): the keys of the domains of the profile with 'local' added,
\* or the keys of its mirrors
GetDomains(info, mirror) ==
    IF mirror THEN info.mirrors ELSE info.domains \o <<"local">>

\* self._all_domains: the keys of {**self.domains, **self.mirrors}
AllDomains(info) == GetDomains(info, FALSE) \o GetDomains(info, TRUE)

\* variant: a local domain without port and ngrokid passes
CheckDomainNoLocalCheck(info, domain, port, ngrokid) ==
    IF ~InSeq(AllDomains(info), domain)
    THEN Raise("ValueError", "Input domain not a valid domain/mirror for API profile")
    ELSE IF (IntTruthy(port) \/ IntTruthy(ngrokid)) /\ domain /= "local"
    THEN Raise("ValueError", "Domain must be local if a port or ngrokid is set!")
    ELSE NoExc

\* the decorator check_domain: the exception it raises before the method runs
CheckDomain(info, domain, port, ngrokid) ==
    IF ~InSeq(AllDomains(info), domain)
    THEN Raise("ValueError", "Input domain not a valid domain/mirror for API profile")
    ELSE IF (IntTruthy(port) \/ IntTruthy(ngrokid)) /\ domain /= "local"
    THEN Raise("ValueError", "Domain must be local if a port or ngrokid is set!")
    ELSE IF domain = "local" /\ ~(IntTruthy(port) \/ IntTruthy(ngrokid))
    THEN Raise("ValueError", "A port or ngrokid must be specified when domain is local")
    ELSE NoExc

\* _create_local_domain(port, ngrokid): a str
CreateLocalDomain(port, ngrokid) ==
    IF IntTruthy(ngrokid) THEN ngrokid \o ".ngrok.io"
    ELSE DomainOf("local").name \o ":" \o Str(port)

\* a str as the current domain
StrDomain(s) == [kind |-> "str", key |-> None, name |-> s, public |-> FALSE]

\* _select_current_domain(domain, port, ngrokid) under check_domain
SelectCurrentDomain(info, domain, port, ngrokid) ==
    LET c == CheckDomain(info, domain, port, ngrokid) IN
    IF c /= NoExc THEN [exc |-> c, current_domain |-> NoDomain]
    ELSE IF Len(AllDomains(info)) = 1
    THEN [exc |-> NoExc, current_domain |-> DomainOf(AllDomains(info)[1])]
    ELSE IF domain = "local"
    THEN [exc |-> NoExc, current_domain |-> StrDomain(CreateLocalDomain(port, ngrokid))]
    ELSE [exc |-> NoExc, current_domain |-> DomainOf(domain)]

\* variant: the public stem is put first and the test stem around it
CreateBaseStemPublicFirst(info, test, public) ==
    LET affix == info.stems.affix
        testfix == info.stems.test
        publicfix == IF info.stems.public = None THEN "public" ELSE info.stems.public
        p1 == IF FlagTruthy(public)
              THEN IF affix = "prefix" THEN <<publicfix, "/">> \o info.base
                   ELSE info.base \o <<"/", publicfix>>
              ELSE info.base
        p2 == IF FlagTruthy(test)
              THEN IF affix = "prefix" THEN <<testfix, "/">> \o p1 ELSE p1 \o <<"/", testfix>>
              ELSE p1
    IN  IF info.api THEN p2 \o <<"/", "api">> ELSE p2

\* _create_base_stem(test, public)
CreateBaseStem(info, test, public) ==
    LET affix == info.stems.affix
        testfix == info.stems.test
        publicfix == IF info.stems.public = None THEN "public" ELSE info.stems.public
        p1 == IF FlagTruthy(test)
              THEN IF affix = "prefix" THEN <<testfix, "/">> \o info.base
                   ELSE info.base \o <<"/", testfix>>
              ELSE info.base
        p2 == IF FlagTruthy(public)
              THEN IF affix = "prefix" THEN <<publicfix, "/">> \o p1
                   ELSE p1 \o <<"/", publicfix>>
              ELSE p1
    IN  IF info.api THEN p2 \o <<"/", "api">> ELSE p2

\* 'local' in self.current_domain: a substring of a str; of a Domain, a pydantic
\* model, the members are its (field, value) pairs, none of which equals 'local'
LocalIn(cd) == cd.kind = "str" /\ HasLocal(cd.name)

\* construct_url(test, public): a str has no attribute name
ConstructUrl(cd, info, test, public) ==
    LET scheme == IF LocalIn(cd) THEN "http" ELSE "https" IN
    IF cd.kind /= "Domain"
    THEN [exc |-> Raise("AttributeError", "'str' object has no attribute 'name'"),
          url |-> Empty]
    ELSE [exc |-> NoExc,
          url |-> Urlunparse([scheme |-> <<scheme>>, netloc |-> <<cd.name>>,
                              path |-> CreateBaseStem(info, test, public)])]

\* variant: a public domain asks for authentication as any other
SetAuthTypeIgnorePublic(cd, info) ==
    IF HasLocal(Str(cd.name)) THEN None ELSE info.auth

\* _set_auth_type(): the value of auth_type
SetAuthType(cd, info) ==
    IF cd.public \/ HasLocal(Str(cd.name)) THEN None ELSE info.auth

\* ApiProfile(name, domain, port, ngrokid, test=test)
ApiProfileInit(cat, name, domain, port, ngrokid, test) ==
    LET failed(e) == [exc |-> e, current_domain |-> NoDomain, url |-> Empty,
                      auth_type |-> None]
    IN
    IF ~InCatalog(cat, name)
    THEN failed(Raise("ValueError", "API Profile not in the apis.yml file."))
    ELSE
    LET info == InfoOf(name)
        dom == IF ~Truthy(domain) THEN GetDomains(info, FALSE)[1] ELSE domain
        s == SelectCurrentDomain(info, dom, port, ngrokid)
        u == ConstructUrl(s.current_domain, info, test, None)
    IN  IF s.exc /= NoExc THEN failed(s.exc)
        ELSE IF u.exc /= NoExc THEN failed(u.exc)
        ELSE [exc |-> NoExc, current_domain |-> s.current_domain, url |-> u.url,
              auth_type |-> SetAuthType(s.current_domain, info)]

\* variant: the scheme of the url is kept
ChangeDomainResultKeepScheme(info, u, cd, at, domain, port, ngrokid) ==
    LET c == CheckDomain(info, domain, port, ngrokid)
        parsed == Urlparse(u)
        netloc == IF domain = "local" THEN CreateLocalDomain(port, ngrokid)
                  ELSE DomainOf(domain).name
    IN
    IF c /= NoExc THEN [exc |-> c, url |-> u, current_domain |-> cd, auth_type |-> at]
    ELSE [exc |-> NoExc,
          url |-> Urlunparse([scheme |-> parsed.scheme, netloc |-> <<netloc>>,
                              path |-> parsed.path]),
          current_domain |-> DomainOf(domain),
          auth_type |-> SetAuthType(DomainOf(domain), info)]

\* variant: the authentication type is set before the current domain is reset
ChangeDomainResultAuthFirst(info, u, cd, at, domain, port, ngrokid) ==
    LET c == CheckDomain(info, domain, port, ngrokid)
        parsed == Urlparse(u)
        scheme == IF domain = "local" THEN "http" ELSE "https"
        netloc == IF domain = "local" THEN CreateLocalDomain(port, ngrokid)
                  ELSE DomainOf(domain).name
    IN
    IF c /= NoExc THEN [exc |-> c, url |-> u, current_domain |-> cd, auth_type |-> at]
    ELSE [exc |-> NoExc,
          url |-> Urlunparse([scheme |-> <<scheme>>, netloc |-> <<netloc>>,
                              path |-> parsed.path]),
          current_domain |-> DomainOf(domain),
          auth_type |-> SetAuthType(cd, info)]

\* change_domain(domain, port, ngrokid) under check_domain
ChangeDomainResult(info, u, cd, at, domain, port, ngrokid) ==
    LET c == CheckDomain(info, domain, port, ngrokid)
        parsed == Urlparse(u)
        scheme == IF domain = "local" THEN "http" ELSE "https"
        netloc == IF domain = "local" THEN CreateLocalDomain(port, ngrokid)
                  ELSE DomainOf(domain).name
    IN
    IF c /= NoExc THEN [exc |-> c, url |-> u, current_domain |-> cd, auth_type |-> at]
    ELSE [exc |-> NoExc,
          url |-> Urlunparse([scheme |-> <<scheme>>, netloc |-> <<netloc>>,
                              path |-> parsed.path]),
          current_domain |-> DomainOf(domain),
          auth_type |-> SetAuthType(DomainOf(domain), info)]

\* variant: the url is constructed anew of the current domain
ChangePathResultConstruct(info, u, cd, test, public) ==
    ConstructUrl(cd, info, test, public).url

\* change_path(test, public): the new url
ChangePathResult(info, u, cd, test, public) ==
    LET parsed == Urlparse(u) IN
    Urlunparse([scheme |-> parsed.scheme, netloc |-> parsed.netloc,
                path |-> CreateBaseStem(info, test, public)])

\* construct_route(route)
ConstructRoute(u, route) == Urljoin(u, route)

-----------------------------------------------------------------------------
(* ApiManager *)

\* the last of the indexes hits: what a loop that overwrites its result keeps
LastHit(hits) == CHOOSE i \in hits : \A j \in hits : j <= i

\* identify_api_from_url(url): both loops keep their last match
IdentifyApiFromUrl(cat, u) ==
    LET parts == Urlparse(u)
        apiHits == {i \in 1..Len(cat) : Contains(parts.path, InfoOf(cat[i]).base)}
        domainHits == {i \in 1..Len(DomainKeys) :
                          <<DomainOf(DomainKeys[i]).name>> = parts.netloc}
    IN
    IF ~StartsWithHttp(u)
    THEN [exc |-> Raise("ValueError", "Input url does not start with http."),
          api |-> None, domain |-> None]
    ELSE [exc |-> NoExc,
          api |-> IF apiHits = {} THEN None ELSE cat[LastHit(apiHits)],
          domain |-> IF domainHits = {} THEN None ELSE DomainKeys[LastHit(domainHits)]]

-----------------------------------------------------------------------------
(* The client: the headers of a request *)

\* the token of the profile: saved in the environment or the configuration,
\* retrieved by get_token, or not to be had
TokenOutcomes == {"saved", "retrieved", "none"}

\* _create_token_auth_header()
CreateTokenAuthHeader(at, tok) ==
    IF at /= "token" THEN [exc |-> NoExc, headers |-> "{}"]
    ELSE IF tok = "none"
    THEN [exc |-> Raise("ValueError", "No token retrieved for API."), headers |-> None]
    ELSE [exc |-> NoExc, headers |-> "{'Authorization': 'Bearer <token>'}"]

\* request(): the headers the request is sent with
RequestHeaders(at, tok) ==
    IF at = "token" THEN CreateTokenAuthHeader(at, tok)
    ELSE [exc |-> NoExc, headers |-> None]

-----------------------------------------------------------------------------
(* One profile of the catalog, call by call *)

\* the routes given to construct_route
Routes == {<<"general", "/", "info">>, <<"/", "cubes">>, Empty,
           <<"/", "marvin", "/", "api", "/", "cubes">>,
           <<"marvin", "/", "api", "/", "cubes">>}

\* urls given to identify_api_from_url besides the constructed routes: the url of
\* the tests, a path of no profile on a domain of the catalog, a path of a profile
\* on another host, and a url that is not http
OtherUrls == {<<"https", "://", "dr15.sdss.org", "/", "marvin", "/", "api", "/", "cubes">>,
              <<"https", "://", "sas.sdss.org", "/", "other">>,
              <<"https", "://", "example.org", "/", "marvin">>,
              <<"ftp", "://", "sas.sdss.org", "/", "marvin">>}

\* the MMA object is not in use
NoObject ==
    /\ filename = None
    /\ objectid = None
    /\ data_origin = None
    /\ mode = None
    /\ release = None
    /\ forcedownload = FALSE
    /\ ignore_db = FALSE
    /\ db = None
    /\ data_input = None
    /\ args = [filename |-> None, objectid |-> None]
    /\ parsed_input = NotParsed
    /\ ee = NoExc
    /\ path_name = None
    /\ path_params = PPNone
    /\ disk = {}
    /\ pc = "none"
    /\ exc = NoExc
    /\ calls = <<>>
    /\ fullpath = None
    /\ inmode = None
    /\ nassign = 0

\* the catalog is loaded at the import of the module
InitProfile ==
    /\ NoObject
    /\ apis \in Catalogs
    /\ api_name = None
    /\ current_domain = NoDomain
    /\ url = Empty
    /\ auth_type = None
    /\ ppc = "new"
    /\ api_exc = NoExc
    /\ last = NoCall
    /\ repeated = FALSE
    /\ ncalls = 0
    /\ sel = NoFlags
    /\ routed = NoRoute
    /\ ident = NoIdent
    /\ headers = None
    /\ NoRegistry
    /\ NoOwner
    /\ NoClients

\* the call op with its arguments
Call(op, domain, port, ngrokid, test, public, arg) ==
    [op |-> op, domain |-> domain, port |-> port, ngrokid |-> ngrokid,
     test |-> test, public |-> public, arg |-> arg]

\* ApiProfile(name, domain=, port=, ngrokid=, test=)
NewProfile ==
    /\ ppc = "new"
    /\ \E name \in NameArgs, domain \in DomainArgs, port \in Ports, ngrokid \in Ngrokids,
          test \in Flags :
        LET r == ApiProfileInit(apis, name, domain, port, ngrokid, test) IN
        /\ api_name' = name
        /\ current_domain' = r.current_domain
        /\ url' = r.url
        /\ auth_type' = r.auth_type
        /\ api_exc' = r.exc
        /\ ppc' = (IF r.exc = NoExc THEN "ready" ELSE "failed")
        /\ sel' = (IF r.exc = NoExc THEN [test |-> test, public |-> None] ELSE sel)
        /\ last' = Call("ApiProfile", None, None, None, None, None, Empty)
    /\ UNCHANGED <<apis, repeated, ncalls, routed, ident, headers>>
    /\ UNCHANGED <<mmaVars, extVars>>

\* profile.change_domain(domain, port=, ngrokid=)
ChangeDomain ==
    /\ ppc = "ready"
    /\ ncalls < MaxCalls
    /\ \E domain \in DomainArgs \ {None}, port \in Ports, ngrokid \in Ngrokids :
        LET r == ChangeDomainResult(InfoOf(api_name), url, current_domain, auth_type,
                                    domain, port, ngrokid)
        IN
        /\ url' = r.url
        /\ current_domain' = r.current_domain
        /\ auth_type' = r.auth_type
        /\ api_exc' = r.exc
        /\ last' = Call("change_domain", domain, port, ngrokid, None, None, Empty)
        /\ repeated' = (last = Call("change_domain", domain, port, ngrokid, None, None, Empty))
    /\ ncalls' = ncalls + 1
    /\ UNCHANGED <<apis, api_name, ppc, sel, routed, ident, headers>>
    /\ UNCHANGED <<mmaVars, extVars>>

\* profile.change_path(test=, public=)
ChangePath ==
    /\ ppc = "ready"
    /\ ncalls < MaxCalls
    /\ \E test \in Flags, public \in Flags :
        /\ url' = ChangePathResult(InfoOf(api_name), url, current_domain, test, public)
        /\ sel' = [test |-> test, public |-> public]
        /\ last' = Call("change_path", None, None, None, test, public, Empty)
        /\ repeated' = (last = Call("change_path", None, None, None, test, public, Empty))
    /\ api_exc' = NoExc
    /\ ncalls' = ncalls + 1
    /\ UNCHANGED <<apis, api_name, current_domain, auth_type, ppc, routed, ident, headers>>
    /\ UNCHANGED <<mmaVars, extVars>>

\* profile.construct_route(route)
ConstructRouteCall ==
    /\ ppc = "ready"
    /\ ncalls < MaxCalls
    /\ \E route \in Routes :
        /\ routed' = [route |-> route, url |-> ConstructRoute(url, route),
                      domain |-> current_domain.key, sel |-> sel]
        /\ last' = Call("construct_route", None, None, None, None, None, route)
        /\ repeated' = (last = Call("construct_route", None, None, None, None, None, route))
    /\ api_exc' = NoExc
    /\ ncalls' = ncalls + 1
    /\ UNCHANGED <<apis, api_name, current_domain, url, auth_type, ppc, sel, ident, headers>>
    /\ UNCHANGED <<mmaVars, extVars>>

\* apim.identify_api_from_url(url), of a constructed route or of another url
IdentifyCall ==
    /\ ppc = "ready"
    /\ ncalls < MaxCalls
    /\ \E u \in OtherUrls \cup {routed.url} :
        LET r == IdentifyApiFromUrl(apis, u) IN
        /\ ident' = [url |-> u, api |-> r.api, domain |-> r.domain]
        /\ api_exc' = r.exc
        /\ last' = Call("identify_api_from_url", None, None, None, None, None, u)
        /\ repeated' = (last = Call("identify_api_from_url", None, None, None, None, None, u))
    /\ ncalls' = ncalls + 1
    /\ UNCHANGED <<apis, api_name, current_domain, url, auth_type, ppc, sel, routed,
                   headers>>
    /\ UNCHANGED <<mmaVars, extVars>>

\* client.request() of a client that uses the profile
Request ==
    /\ ppc = "ready"
    /\ ncalls < MaxCalls
    /\ \E tok \in TokenOutcomes :
        LET r == RequestHeaders(auth_type, tok) IN
        /\ headers' = r.headers
        /\ api_exc' = r.exc
    /\ last' = Call("request", None, None, None, None, None, Empty)
    /\ repeated' = (last = Call("request", None, None, None, None, None, Empty))
    /\ ncalls' = ncalls + 1
    /\ UNCHANGED <<apis, api_name, current_domain, url, auth_type, ppc, sel, routed, ident>>
    /\ UNCHANGED <<mmaVars, extVars>>

NextProfile ==
    \/ NewProfile
    \/ ChangeDomain
    \/ ChangePath
    \/ ConstructRouteCall
    \/ IdentifyCall
    \/ Request

SpecProfile == InitProfile /\ [][NextProfile]_vars

-----------------------------------------------------------------------------
(* The ApiManager instances of the process and the ApiHandler *)

\* the modules that hold an ApiManager: apim of api/manager.py, apim of api/client.py
\* and config.apis
Holders == {"manager", "client", "config"}

\* the names of the catalog
NamesOf(cat) == {cat[i] : i \in 1..Len(cat)}

\* ApiManager(): a new ApiProfile(a) for each name a of the catalog, and no profile
\* selected
NewManager(cat) ==
    [apis |-> [a \in NamesOf(cat) |->
                  LET p == ApiProfileInit(cat, a, None, None, None, None)
                  IN  [current_domain |-> p.current_domain, url |-> p.url,
                       auth_type |-> p.auth_type]],
     profile |-> None]

\* set_profile(name, domain, test) on the manager m: what it raises and the manager
\* afterwards
SetProfile(m, name, domain, test) ==
    IF name \notin DOMAIN m.apis
    THEN [exc |-> Raise("ValueError", "Input profile not an available SDSS API."),
          manager |-> m]
    ELSE
    LET info == InfoOf(name)
        p == m.apis[name]
        d == IF Truthy(domain)
             THEN ChangeDomainResult(info, p.url, p.current_domain, p.auth_type,
                                     domain, None, None)
             ELSE [exc |-> NoExc, url |-> p.url, current_domain |-> p.current_domain,
                   auth_type |-> p.auth_type]
        u == IF d.exc = NoExc /\ FlagTruthy(test)
             THEN ChangePathResult(info, d.url, d.current_domain, test, None)
             ELSE d.url
    IN  [exc |-> d.exc,
         manager |-> [apis |-> [m.apis EXCEPT ![name] =
                                   [current_domain |-> d.current_domain, url |-> u,
                                    auth_type |-> d.auth_type]],
                      profile |-> name]]

\* config.set_api(name, domain, test): a new ApiManager, and set_profile for a name
ConfigSetApiResult(cat, name, domain, test) ==
    IF Truthy(name) THEN SetProfile(NewManager(cat), name, domain, test)
    ELSE [exc |-> NoExc, manager |-> NewManager(cat)]

\* no client
NoClientApi == [holder |-> None, name |-> None]

\* ApiHandler(value) for a string: _check_url with the manager m of api/manager.py
\* and the manager c of the configuration; the api of the handler and of its client
\* are profiles of a manager, named by the holder of the manager
CheckUrl(m, c, cat, value) ==
    LET http == StartsWithHttp(value)
        r == IdentifyApiFromUrl(cat, value)
        switch == http /\ r.api /= None /\ r.domain /= None
        p == m.apis[r.api]
        d == ChangeDomainResult(InfoOf(r.api), p.url, p.current_domain, p.auth_type,
                                r.domain, None, None)
        api == IF http THEN r.api
               ELSE IF Len(value) = 1 /\ value[1] \in DOMAIN m.apis THEN value[1]
               ELSE None
        client == IF api /= None THEN [holder |-> "manager", name |-> api]
                  ELSE IF http THEN NoClientApi
                  ELSE [holder |-> "config", name |-> c.profile]
    IN
    IF switch /\ d.exc /= NoExc
    THEN [exc |-> d.exc, manager |-> m,
          handler |-> [url |-> value, api |-> api, client |-> NoClientApi]]
    ELSE IF ~http /\ client.name = None
    THEN [exc |-> Raise("BrainError", "No API is set."), manager |-> m,
          handler |-> [url |-> Empty, api |-> api, client |-> NoClientApi]]
    ELSE [exc |-> NoExc,
          manager |-> IF switch
                      THEN [m EXCEPT !.apis[r.api] =
                               [current_domain |-> d.current_domain, url |-> d.url,
                                auth_type |-> d.auth_type]]
                      ELSE m,
          handler |-> [url |-> IF http THEN value ELSE Empty, api |-> api,
                       client |-> client]]

\* the arguments given through the registries: a domain of the profile marvin, a
\* domain of the catalog that is not one of marvin, and 'local'
RegistryDomains == {None, "dr15", "api", "local"}

\* the strings given to ApiHandler: urls on a domain of marvin, on a domain of the
\* catalog that is not one of marvin, on the bare local host, on a host that is not
\* of the catalog and on a path of no profile, and the names of profiles
HandlerInputs == {<<"https", "://", "dr15.sdss.org", "/", "marvin", "/", "cubes">>,
                  <<"https", "://", "api.sdss.org", "/", "marvin", "/", "cubes">>,
                  <<"http", "://", "localhost", "/", "marvin", "/", "cubes">>,
                  <<"https", "://", "example.org", "/", "marvin">>,
                  <<"https", "://", "sas.sdss.org", "/", "other">>,
                  <<"marvin">>, <<"bogus">>}

NoHandler == [url |-> Empty, api |-> None, client |-> NoClientApi]
NoRegistryCall == [op |-> "None", holder |-> None, name |-> None, arg |-> Empty,
                   exc |-> NoExc]

\* the three managers are made at the import of their modules
InitRegistry ==
    /\ NoObject
    /\ apis \in Catalogs
    /\ api_name = None
    /\ current_domain = NoDomain
    /\ url = Empty
    /\ auth_type = None
    /\ ppc = "none"
    /\ api_exc = NoExc
    /\ last = NoCall
    /\ repeated = FALSE
    /\ ncalls = 0
    /\ sel = NoFlags
    /\ routed = NoRoute
    /\ ident = NoIdent
    /\ headers = None
    /\ managers = [h \in Holders |-> NewManager(apis)]
    /\ handler = NoHandler
    /\ rlast = NoRegistryCall
    /\ rcalls = 0
    /\ NoOwner
    /\ NoClients

\* apim.set_profile(name, domain, test) of api/manager.py, or
\* SDSSClient(use_api=name, domain=domain, test=test), which calls set_profile of
\* the apim of api/client.py
RegistrySetProfile ==
    /\ rcalls < MaxRegistryCalls
    /\ \E h \in {"manager", "client"}, name \in NameArgs, domain \in RegistryDomains,
          test \in {None, "True"} :
        LET r == SetProfile(managers[h], name, domain, test) IN
        /\ managers' = [managers EXCEPT ![h] = r.manager]
        /\ rlast' = [op |-> "set_profile", holder |-> h, name |-> name, arg |-> Empty,
                     exc |-> r.exc]
    /\ rcalls' = rcalls + 1
    /\ UNCHANGED handler
    /\ UNCHANGED <<mmaVars, apiVars, accVars, cliVars>>

\* config.set_api(name, domain, test)
ConfigSetApi ==
    /\ rcalls < MaxRegistryCalls
    /\ \E name \in NameArgs \cup {None}, domain \in RegistryDomains,
          test \in {None, "True"} :
        LET r == ConfigSetApiResult(apis, name, domain, test) IN
        /\ managers' = [managers EXCEPT !["config"] = r.manager]
        /\ rlast' = [op |-> "set_api", holder |-> "config", name |-> name,
                     arg |-> Empty, exc |-> r.exc]
    /\ rcalls' = rcalls + 1
    /\ UNCHANGED handler
    /\ UNCHANGED <<mmaVars, apiVars, accVars, cliVars>>

\* <holder>.apis[name].change_domain(domain, port)
RegistryChangeDomain ==
    /\ rcalls < MaxRegistryCalls
    /\ \E h \in Holders, name \in NamesOf(apis), domain \in RegistryDomains \ {None},
          port \in {None, "5000"} :
        LET p == managers[h].apis[name]
            r == ChangeDomainResult(InfoOf(name), p.url, p.current_domain, p.auth_type,
                                    domain, port, None)
        IN
        /\ managers' = [managers EXCEPT ![h].apis[name] =
                           [current_domain |-> r.current_domain, url |-> r.url,
                            auth_type |-> r.auth_type]]
        /\ rlast' = [op |-> "change_domain", holder |-> h, name |-> name,
                     arg |-> Empty, exc |-> r.exc]
    /\ rcalls' = rcalls + 1
    /\ UNCHANGED handler
    /\ UNCHANGED <<mmaVars, apiVars, accVars, cliVars>>

\* <holder>.apis[name].change_path(test, public)
RegistryChangePath ==
    /\ rcalls < MaxRegistryCalls
    /\ \E h \in Holders, name \in NamesOf(apis), test \in {None, "True"},
          public \in {None, "True"} :
        LET p == managers[h].apis[name] IN
        /\ managers' = [managers EXCEPT ![h].apis[name].url =
                           ChangePathResult(InfoOf(name), p.url, p.current_domain,
                                            test, public)]
        /\ rlast' = [op |-> "change_path", holder |-> h, name |-> name,
                     arg |-> Empty, exc |-> NoExc]
    /\ rcalls' = rcalls + 1
    /\ UNCHANGED handler
    /\ UNCHANGED <<mmaVars, apiVars, accVars, cliVars>>

\* ApiHandler(value) for a url or the name of a profile
NewHandler ==
    /\ rcalls < MaxRegistryCalls
    /\ \E value \in HandlerInputs :
        LET r == CheckUrl(managers["manager"], managers["config"], apis, value) IN
        /\ managers' = [managers EXCEPT !["manager"] = r.manager]
        /\ handler' = r.handler
        /\ rlast' = [op |-> "ApiHandler", holder |-> "manager", name |-> r.handler.api,
                     arg |-> value, exc |-> r.exc]
    /\ rcalls' = rcalls + 1
    /\ UNCHANGED <<mmaVars, apiVars, accVars, cliVars>>

NextRegistry ==
    \/ RegistrySetProfile
    \/ ConfigSetApi
    \/ RegistryChangeDomain
    \/ RegistryChangePath
    \/ NewHandler

SpecRegistry == InitRegistry /\ [][NextRegistry]_vars

-----------------------------------------------------------------------------
(* The path resolver of one owner: the access property of AccessMixIn *)

\* the releases of an owner: public data releases, the work release and an
\* internal release
OwnerReleases == {"DR15", "DR16", "WORK", "MPL8"}

\* release.lower()
Lower(r) ==
    CASE r = "DR15" -> "dr15"
      [] r = "DR16" -> "dr16"
      [] r = "WORK" -> "work"
      [] r = "MPL8" -> "mpl8"

\* 'DR' in release
HasDR(r) == r \in {"DR15", "DR16"}

\* 'work' in s, for a lower-cased release
HasWork(s) == s = "work"

\* Access(public, release) of sdss_access: without a release the instance is one
\* of the work release
AccessOf(public, rel) ==
    [release |-> IF Truthy(rel) THEN rel ELSE "sdsswork", public |-> public]

\* create_new_access(release)
CreateNewAccess(r) ==
    LET is_public == HasDR(r)
        rsync_release == IF is_public THEN Lower(r) ELSE None
    IN  AccessOf(is_public, rsync_release)

\* variant: an instance that is set is kept
SetAccessOnce(r, acc) == acc = NoAccess

\* set_access: a new instance is created
SetAccess(r, acc) ==
    LET isset == acc /= NoAccess
        diffrelease == IF HasWork(Lower(r)) THEN isset /\ "sdsswork" /= acc.release
                       ELSE isset /\ Lower(r) /= acc.release
    IN  ~isset \/ diffrelease

\* inst.access: the instance of the owner after the read, the n-th created so far
ReadAccess(r, acc, n) ==
    IF SetAccess(r, acc)
    THEN [release |-> CreateNewAccess(r).release, public |-> CreateNewAccess(r).public,
          serial |-> n + 1]
    ELSE acc

InitAccess ==
    /\ NoObject
    /\ NoProfile
    /\ NoRegistry
    /\ NoClients
    /\ arelease = None
    /\ access = NoAccess
    /\ nbuilt = 0
    /\ alast = "new"
    /\ acalls = 0

\* AccessMixIn.__init__(release=r): _access is None, and _setup_access reads the
\* access property when the class has a path_name
NewOwner ==
    /\ alast = "new"
    /\ \E r \in OwnerReleases, named \in BOOLEAN :
        /\ arelease' = r
        /\ access' = IF named THEN ReadAccess(r, NoAccess, nbuilt) ELSE NoAccess
        /\ nbuilt' = IF named THEN nbuilt + 1 ELSE nbuilt
    /\ alast' = "init"
    /\ acalls' = 0
    /\ UNCHANGED <<mmaVars, apiVars, regVars, cliVars>>

\* a read of inst.access
GetAccess ==
    /\ alast \notin {"None", "new"}
    /\ acalls < MaxAccessCalls
    /\ access' = ReadAccess(arelease, access, nbuilt)
    /\ nbuilt' = IF SetAccess(arelease, access) THEN nbuilt + 1 ELSE nbuilt
    /\ alast' = "access"
    /\ acalls' = acalls + 1
    /\ UNCHANGED arelease
    /\ UNCHANGED <<mmaVars, apiVars, regVars, cliVars>>

\* the release of the owner changes (inst._release = r)
ChangeRelease ==
    /\ alast \notin {"None", "new"}
    /\ acalls < MaxAccessCalls
    /\ \E r \in OwnerReleases \ {arelease} : arelease' = r
    /\ alast' = "release"
    /\ acalls' = acalls + 1
    /\ UNCHANGED <<access, nbuilt>>
    /\ UNCHANGED <<mmaVars, apiVars, regVars, cliVars>>

NextAccess ==
    \/ NewOwner
    \/ GetAccess
    \/ ChangeRelease

SpecAccess == InitAccess /\ [][NextAccess]_vars

-----------------------------------------------------------------------------
(* The tokens of a profile and the requests of the clients *)

\* what the token route answers to a login: a token, a response without a token,
\* an error status, or no answer at all
LoginOutcomes == {"token", "notoken", "status", "error"}

\* send_post_request(url, data): what it raises for an answer
SendPostRequest(net) ==
    IF net = "error" THEN Raise("BrainError", "An error occurred requesting the url")
    ELSE IF net = "status" THEN Raise("HTTPStatusError", "httpx")
    ELSE NoExc

\* ApiProfile.get_token(user): what it raises and returns, the login exchanges it
\* sends, and the tokens kept afterwards
GetToken(cache, auth, validated, net) ==
    IF Truthy(cache.access)
    THEN [exc |-> NoExc, ret |-> cache.access, sent |-> 0, cache |-> cache]
    ELSE IF auth /= "token"
    THEN [exc |-> NoExc, ret |-> None, sent |-> 0, cache |-> cache]
    ELSE IF ~validated
    THEN [exc |-> Raise("BrainError", "User is not netrc validated!"), ret |-> None,
          sent |-> 0, cache |-> cache]
    ELSE IF SendPostRequest(net) /= NoExc
    THEN [exc |-> SendPostRequest(net), ret |-> None, sent |-> 1, cache |-> cache]
    ELSE IF net = "notoken"
    THEN [exc |-> Raise("BrainError", "could not extract token from response data"),
          ret |-> None, sent |-> 1, cache |-> cache]
    ELSE [exc |-> NoExc, ret |-> "a1", sent |-> 1, cache |-> cache]

\* BaseClient.get_token()
ClientGetToken(cache, auth, validated, net) ==
    IF ~validated
    THEN [exc |-> Raise("ValueError", "User is not properly validated with netrc."),
          ret |-> None, sent |-> 0, cache |-> cache]
    ELSE GetToken(cache, auth, validated, net)

\* what the refresh route answers: a new access token, or a failure
RefreshOutcomes == {"token", "failure"}

\* variant: the refresh replaces both tokens
RefreshAuthTokenBoth(cache, net) ==
    IF ~Truthy(cache.refresh) \/ net /= "token"
    THEN [exc |-> Raise("AuthError", "refresh"), ret |-> None, cache |-> cache]
    ELSE [exc |-> NoExc, ret |-> "a2", cache |-> [access |-> "a2", refresh |-> "a2"]]

\* refresh_auth_token(): the exchange of the kept refresh token against the refresh
\* route for a new access token
RefreshAuthToken(cache, net) ==
    IF ~Truthy(cache.refresh)
    THEN [exc |-> Raise("AuthError", "no refresh token"), ret |-> None, cache |-> cache]
    ELSE IF net /= "token"
    THEN [exc |-> Raise("AuthError", "refresh failed"), ret |-> None, cache |-> cache]
    ELSE [exc |-> NoExc, ret |-> "a2", cache |-> [cache EXCEPT !.access = "a2"]]

\* a client as constructed with a profile and without a url
NewClient == [closed |-> FALSE, url |-> "none", exc |-> NoExc, data |-> None]

\* the requests given to a client: the url is a full url, none, or a url with
\* bracket arguments; the data is none or not a dictionary
Requests == [url : {"url", "none", "brackets"}, method : {"get", "stream", "stuff"},
             data : {"none", "str"}]

\* what the server answers to a request: a response, an error status (4xx/5xx),
\* or no answer at all (httpx.RequestError)
NetOutcomes == {"ok", "status", "error"}

\* _validate_request(url, method): the url of the client afterwards, what is raised
ValidateRequest(c, u, method) ==
    LET new == IF u /= "none" THEN u ELSE c.url IN
    [url |-> new,
     exc |-> IF method \notin {"get", "post", "stream", "head"}
             THEN Raise("ValueError", "http request method type")
             ELSE IF new = "none" THEN Raise("ValueError", "No url set.")
             ELSE IF new = "brackets"
             THEN Raise("BrainError", "Request url contains bracket arguments")
             ELSE NoExc]

\* the token auth header of a request: what is raised, the login exchanges sent
TokenHeader(cache, auth, validated, login) ==
    LET t == ClientGetToken(cache, auth, validated, login)
        own == Truthy(cache.access)
    IN
    IF auth /= "token" \/ own
    THEN [exc |-> RequestHeaders(auth, "saved").exc, sent |-> 0]
    ELSE IF t.exc /= NoExc THEN [exc |-> t.exc, sent |-> t.sent]
    ELSE [exc |-> RequestHeaders(auth, IF Truthy(t.ret) THEN "retrieved" ELSE "none").exc,
          sent |-> t.sent]

\* prepare_data(data)
PrepareData(data) ==
    IF data = "str" THEN Raise("TypeError", "input request data is not of type dict")
    ELSE NoExc

\* the try statement of request(): the request is sent, the response is checked
SendRequest(closed, strict, method, net) ==
    IF closed /\ strict THEN Raise("RuntimeError", "the client has been closed")
    ELSE IF net = "error"
    THEN Raise("BrainError", "An error occurred requesting the url")
    ELSE IF net = "status" THEN Raise("HTTPStatusError", "httpx")
    ELSE NoExc

\* SDSSClient.request and SDSSAsyncClient.request: the client afterwards, with what
\* the call raised, and the login exchanges sent
RequestResult(kind, c, cache, auth, validated, u, method, data, login, net, strict) ==
    LET v == ValidateRequest(c, u, method)
        h == TokenHeader(cache, auth, validated, login)
        p == PrepareData(data)
        s == SendRequest(c.closed, strict, method, net)
        raised(e, n) == [client |-> [c EXCEPT !.url = v.url, !.exc = e], sent |-> n]
    IN
    IF v.exc /= NoExc THEN raised(v.exc, 0)
    ELSE IF h.exc /= NoExc THEN raised(h.exc, h.sent)
    ELSE IF p /= NoExc THEN raised(p, h.sent)
    ELSE [client |-> [closed |-> c.closed \/ kind = "async", url |-> v.url, exc |-> s,
                      data |-> IF s /= NoExc THEN c.data
                               ELSE IF method = "stream" THEN "stream" ELSE "response"],
          sent |-> h.sent]

\* the return value of __exit__ and __aexit__
ExitValue(owner) == TRUE

\* a profile, its saved tokens, a user, and two new clients of the profile
InitClient ==
    /\ NoObject
    /\ NoProfile
    /\ NoRegistry
    /\ NoOwner
    /\ token_cache \in [access : {None, "a0"}, refresh : {None, "r0"}]
    /\ logins = 0
    /\ token = NoToken
    /\ cauth \in {"token", "netrc"}
    /\ cuser \in BOOLEAN
    /\ clients = [sync |-> NewClient, async |-> NewClient]
    /\ block = NoBlock
    /\ clast = "new"
    /\ ccalls = 0

\* profile.get_token(user)
GetTokenCall ==
    /\ clast /= "None"
    /\ ccalls < MaxClientCalls
    /\ \E login \in LoginOutcomes :
        LET r == GetToken(token_cache, cauth, cuser, login) IN
        /\ token' = [exc |-> r.exc, ret |-> r.ret]
        /\ token_cache' = r.cache
        /\ logins' = logins + r.sent
    /\ clast' = "get_token"
    /\ ccalls' = ccalls + 1
    /\ UNCHANGED <<cauth, cuser, clients, block>>
    /\ UNCHANGED <<mmaVars, apiVars, regVars, accVars>>

\* profile.refresh_auth_token()
RefreshCall ==
    /\ clast /= "None"
    /\ ccalls < MaxClientCalls
    /\ \E net \in RefreshOutcomes :
        LET r == RefreshAuthToken(token_cache, net) IN
        /\ token' = [exc |-> r.exc, ret |-> r.ret]
        /\ token_cache' = r.cache
    /\ clast' = "refresh"
    /\ ccalls' = ccalls + 1
    /\ UNCHANGED <<logins, cauth, cuser, clients, block>>
    /\ UNCHANGED <<mmaVars, apiVars, regVars, accVars>>

\* the same request on the SDSSClient and, awaited, on the SDSSAsyncClient, with
\* the same answers of the server; strict: the httpx of the build refuses to send
\* on a client that is closed
ClientRequest ==
    /\ clast /= "None"
    /\ ccalls < MaxClientCalls
    /\ \E req \in Requests, login \in LoginOutcomes, net \in NetOutcomes,
          strict \in BOOLEAN :
        LET s == RequestResult("sync", clients.sync, token_cache, cauth, cuser,
                               req.url, req.method, req.data, login, net, strict)
            a == RequestResult("async", clients.async, token_cache, cauth, cuser,
                               req.url, req.method, req.data, login, net, strict)
        IN
        /\ clients' = [sync |-> s.client, async |-> a.client]
        /\ logins' = logins + s.sent + a.sent
    /\ clast' = "request"
    /\ ccalls' = ccalls + 1
    /\ UNCHANGED <<token_cache, token, cauth, cuser, block>>
    /\ UNCHANGED <<mmaVars, apiVars, regVars, accVars>>

\* with SDSSClient(url, use_api=profile) as client: client.request(...)
WithClient ==
    /\ clast /= "None"
    /\ ccalls < MaxClientCalls
    /\ \E req \in Requests, login \in LoginOutcomes, net \in NetOutcomes :
        LET r == RequestResult("sync", NewClient, token_cache, cauth, cuser,
                               req.url, req.method, req.data, login, net, TRUE)
        IN
        /\ block' = [owner |-> "SDSSClient", raised |-> r.client.exc,
                     propagated |-> IF ExitValue("SDSSClient") THEN NoExc
                                   ELSE r.client.exc,
                     closed |-> TRUE]
        /\ logins' = logins + r.sent
    /\ clast' = "with"
    /\ ccalls' = ccalls + 1
    /\ UNCHANGED <<token_cache, token, cauth, cuser, clients>>
    /\ UNCHANGED <<mmaVars, apiVars, regVars, accVars>>

\* with Brain(...) as brain: a body that raises, or not
WithBrain ==
    /\ clast /= "None"
    /\ ccalls < MaxClientCalls
    /\ \E e \in {NoExc, Raise("BrainError", "raised in the block")} :
        block' = [owner |-> "Brain", raised |-> e,
                  propagated |-> IF ExitValue("Brain") THEN NoExc ELSE e,
                  closed |-> TRUE]
    /\ clast' = "with"
    /\ ccalls' = ccalls + 1
    /\ UNCHANGED <<token_cache, logins, token, cauth, cuser, clients>>
    /\ UNCHANGED <<mmaVars, apiVars, regVars, accVars>>

NextClient ==
    \/ GetTokenCall
    \/ RefreshCall
    \/ ClientRequest
    \/ WithClient
    \/ WithBrain

SpecClient == InitClient /\ [][NextClient]_vars

-----------------------------------------------------------------------------
(* Vocabulary of the properties *)

\* the call e was made
Has(e) == \E i \in 1..Len(calls) : calls[i] = e

\* the number of calls of e
Count(e) == Cardinality({i \in 1..Len(calls) : calls[i] = e})

\* the constructor has returned and no attribute was assigned since
Constructed == pc = "done" /\ nassign = 0

\* _do_local or _do_remote has set the origin and the constructor has not raised
Resolved == pc = "check" \/ Constructed

\* the disk was looked at
DiskChecked ==
    \/ Has("filename.exists=True") \/ Has("filename.exists=False")
    \/ Has("os.path.exists=True") \/ Has("os.path.exists=False")

\* _do_local ran for an objectid, no filename
LocalForObjectid ==
    /\ Has("_do_local")
    /\ ~Has("filename.exists=True") /\ ~Has("filename.exists=False")
    /\ Truthy(objectid)

-----------------------------------------------------------------------------
(* Local mode *)

\* C1: in local mode with an objectid, a database handle that is connected and not
\* ignored makes the origin 'db', whatever the disk holds and whatever the download
\* flag is; neither get_full_path nor the download nor the disk is used.
C1_LocalDbFirst ==
    (inmode = "local" /\ LocalForObjectid /\ db = "connected" /\ ~ignore_db /\ nassign = 0)
        => /\ Resolved
           /\ data_origin = "db"
           /\ mode = "local"
           /\ ~Has("get_full_path") /\ ~Has("download") /\ ~DiskChecked

\* C1 happens: a local construction on a connected database while the file of the
\* objectid is on the disk and the download is forced
C1_Witness ==
    /\ Constructed /\ inmode = "local" /\ data_origin = "db"
    /\ db = "connected" /\ ~ignore_db /\ forcedownload
    /\ TemplatePath(objectid) \in disk

\* C2: in local mode with an objectid and no usable database (none, not connected,
\* or ignored), when get_full_path answers a path that is on the disk the origin is
\* 'file' and filename is that path, the path of the template filled with the objectid.
C2_LocalFileOfPath ==
    (/\ inmode = "local" /\ LocalForObjectid /\ nassign = 0
     /\ (db /= "connected" \/ ignore_db)
     /\ Has("os.path.exists=True"))
        => /\ Resolved
           /\ data_origin = "file"
           /\ filename = fullpath
           /\ fullpath = TemplatePath(path_params.object)
           /\ fullpath \in disk

\* C2 happens: the database is connected but ignored and the file is on the disk
C2_Witness ==
    /\ Constructed /\ inmode = "local" /\ data_origin = "file"
    /\ db = "connected" /\ ignore_db
    /\ Has("os.path.exists=True") /\ filename = TemplatePath("A") /\ args.objectid = "A"

-----------------------------------------------------------------------------
(* Remote mode *)

\* the arguments passed the assertion of line 193 (data_input excludes filename and
\* objectid)
ArgsAccepted ==
    exc /= Raise("AssertionError", "if input is set, filename and objectid cannot be set.")

\* C3: in remote mode a filename (explicit or parsed) raises the BrainError 'filename
\* not allowed in remote mode' before the disk, the database or the download is used
\* and no origin is set; otherwise, once the inputs are determined, the origin is 'api'
\* without any check of the disk or of the database.
C3_RemoteMode ==
    /\ (inmode = "remote" /\ pc \notin {"new", "determine"} /\ Truthy(filename) /\ ArgsAccepted)
        => /\ pc = "raised"
           /\ exc = Raise("BrainError", "filename not allowed in remote mode.")
           /\ data_origin = None
           /\ ~DiskChecked /\ ~Has("db.connected") /\ ~Has("download")
           /\ ~Has("get_full_path") /\ ~Has("_do_local")
    /\ (inmode = "remote" /\ pc \in {"check", "done", "except"} /\ nassign = 0)
        => /\ Resolved
           /\ ~Truthy(filename)
           /\ data_origin = "api"
           /\ mode = "remote"
           /\ Count("_do_remote") = 1
           /\ ~DiskChecked /\ ~Has("db.connected") /\ ~Has("download")
           /\ ~Has("get_full_path") /\ ~Has("_do_local")
    /\ (inmode = "remote" /\ pc = "raised") => ~Has("_do_remote") /\ data_origin = None

\* C3 happens (the filename side): a parsed filename in remote mode was refused
C3_Witness ==
    /\ inmode = "remote" /\ pc = "raised" /\ Truthy(filename)
    /\ parsed_input.kind = "dict" /\ Truthy(parsed_input.filename)
    /\ exc = Raise("BrainError", "filename not allowed in remote mode.")
    /\ filename \in disk

\* C3 happens (the objectid side): remote while the file is on the disk and the
\* database is connected
C3_WitnessApi ==
    /\ Constructed /\ inmode = "remote" /\ data_origin = "api"
    /\ db = "connected" /\ ~ignore_db /\ TemplatePath(objectid) \in disk

-----------------------------------------------------------------------------
(* Auto mode *)

\* C4: in auto mode a filename (explicit or parsed) that is not on the disk raises the
\* BrainError of _do_local; _do_remote is not entered and the origin never becomes 'api'.
C4_AutoFilenameNoFallback ==
    (inmode = "auto" /\ Has("filename.exists=False"))
        => /\ pc \in {"except", "raised"}
           /\ exc = Raise("BrainError", "input file not found")
           /\ data_origin = None
           /\ ~Has("_do_remote")
           /\ mode = "auto"

\* C4 happens: the constructor has raised for a missing file in auto mode
C4_Witness ==
    /\ inmode = "auto" /\ pc = "raised" /\ Has("filename.exists=False")
    /\ Truthy(filename) /\ filename \notin disk

\* C5: in auto mode with an objectid, a class with a path template, no usable
\* database, no file at the computed path and no forced download, the construction
\* does not raise: _do_local runs first and fails, _do_remote then runs exactly once,
\* and the result is data_origin 'api' with mode 'remote'.
C5_AutoFallbackOnce ==
    (/\ inmode = "auto" /\ LocalForObjectid /\ nassign = 0
     /\ Truthy(path_name)
     /\ (db /= "connected" \/ ignore_db)
     /\ ~forcedownload
     /\ ~Has("os.path.exists=True"))
        => \/ /\ pc = "except"
              /\ ee.type = "BrainError" /\ exc = ee
              /\ data_origin = None /\ Count("_do_local") = 1 /\ ~Has("_do_remote")
           \/ /\ Resolved
              /\ exc = NoExc
              /\ data_origin = "api" /\ mode = "remote"
              /\ Count("_do_local") = 1 /\ Count("_do_remote") = 1
              /\ calls[Len(calls)] = "_do_remote"
              /\ ~Has("download")

\* C5 happens: the fallback was made after the disk was found not to hold the file
C5_Witness ==
    /\ Constructed /\ inmode = "auto" /\ data_origin = "api" /\ mode = "remote"
    /\ Has("os.path.exists=False") /\ objectid = "A" /\ db = None

-----------------------------------------------------------------------------
(* The inputs kept by a construction *)

Terminal == {"file", "db", "api"}

\* both a filename and an objectid were given, explicitly or by the parser
BothGiven ==
    \/ ~Truthy(data_input) /\ Truthy(args.filename) /\ Truthy(args.objectid)
    \/ /\ parsed_input.kind = "dict"
       /\ Truthy(parsed_input.filename) /\ Truthy(parsed_input.objectid)

\* the filename of BothGiven
GivenFilename ==
    IF parsed_input.kind = "dict" THEN parsed_input.filename ELSE args.filename

\* neither was given: the arguments are both None, or the parser answered a
\* dictionary in which both are None
NeitherNone ==
    \/ ~Truthy(data_input) /\ args.filename = None /\ args.objectid = None
    \/ /\ parsed_input.kind = "dict"
       /\ parsed_input.filename = None /\ parsed_input.objectid = None

\* the parser answered nothing
ParsedEmpty == parsed_input.kind = "empty"

NoInputsError == Raise("BrainError", "no inputs defined. filename and objectid are both None")

\* C6 as stated: after a successful construction exactly one of filename and objectid
\* is non-empty, and an origin 'file' has cleared objectid.
C6_ExactlyOne ==
    Constructed
        => /\ Truthy(filename) /= Truthy(objectid)
           /\ (data_origin = "file" => objectid = None)

\* C6 as the code has it: after a successful construction filename and objectid are
\* not both None; a filename input leaves objectid None; an objectid that resolves to
\* 'file', by the path found on the disk or by the download, keeps objectid and binds
\* filename to the path of the template; the origins 'db' and 'api' have no filename.
C6_FilenameAndObjectid ==
    Constructed
        => /\ (filename /= None \/ objectid /= None)
           /\ (Has("filename.exists=True")
                 => data_origin = "file" /\ Truthy(filename) /\ objectid = None)
           /\ (data_origin = "file" /\ ~Has("filename.exists=True")
                 => /\ Truthy(objectid) /\ Truthy(filename)
                    /\ filename = TemplatePath(path_params.object)
                    /\ (Has("os.path.exists=True") \/ Has("download")))
           /\ (data_origin \in {"db", "api"} => ~Truthy(filename))

\* C6 happens: an objectid resolved to the file by a forced download keeps both
C6_Witness ==
    /\ Constructed /\ data_origin = "file" /\ Has("download")
    /\ objectid = "A" /\ filename = TemplatePath("A")

C8_ExactlyOneInput ==
    (pc \notin {"new", "determine"} /\ ArgsAccepted /\ (BothGiven \/ NeitherNone \/ ParsedEmpty))
        => pc = "raised" /\ exc.type = "BrainError" /\ data_origin = None

\* C8 as the code has it: only the input in which filename and objectid are both None
\* raises the BrainError 'no inputs defined', and no origin is set; when both are given
\* the filename is taken and the objectid dropped; when the parser answers nothing the
\* raw input is taken as the filename.
C8_InputChoice ==
    pc \notin {"new", "determine"}
        => /\ (exc = NoInputsError <=> pc = "raised" /\ NeitherNone)
           /\ (exc = NoInputsError => data_origin = None /\ calls \in {<<>>, <<"_parse_input">>})
           /\ (BothGiven /\ ArgsAccepted
                 => filename = Abspath(GivenFilename) /\ objectid = None)
           /\ (ParsedEmpty => filename = Abspath(data_input) /\ objectid = None)

\* C8 happens: explicit filename and objectid were both given and the object was built
\* on the file
C8_Witness ==
    /\ Constructed /\ BothGiven /\ data_origin = "file" /\ objectid = None
    /\ args.objectid = "A" /\ filename = Abspath(args.filename)

\* C9: the fallback to remote is driven only by a failed local resolution in auto
\* mode: local mode never ends on 'api', and in auto mode the bad-input error that
\* get_full_path raises reaches the caller, it is not turned into the origin 'api'.
C9_FallbackOnlyOnResolutionError ==
    /\ (inmode = "local" /\ nassign = 0 => data_origin /= "api" /\ ~Has("_do_remote"))
    /\ (inmode = "auto" /\ nassign = 0 /\ ee = Raise("BrainError", "Bad input type for sdss_access")
          => data_origin /= "api" /\ ~Has("_do_remote"))

\* C10: the download is made at most once in a construction, and only when it is
\* forced, for an objectid, without a usable database and without the file on the disk;
\* never in remote mode, for a filename, or after the file was found.
C10_DownloadGuard ==
    /\ Count("download") <= 1
    /\ Has("download")
          => /\ forcedownload
             /\ inmode \in {"local", "auto"}
             /\ Truthy(objectid)
             /\ args.filename \in {None, ""}
             /\ ~Has("filename.exists=True") /\ ~Has("filename.exists=False")
             /\ (db /= "connected" \/ ignore_db)
             /\ ~Has("os.path.exists=True")
             /\ Has("get_full_path")
    /\ (inmode = "remote" => ~Has("download"))
    /\ (~forcedownload /\ pc /= "new" => ~Has("download"))

\* C10 happens: the download was made and the file it fetched is on the disk
C10_Witness ==
    /\ Constructed /\ Has("download") /\ Has("os.path.exists=False")
    /\ data_origin = "file" /\ filename \in disk /\ inmode = "auto"

-----------------------------------------------------------------------------
(* Vocabulary of the properties of a profile *)

\* the profile is constructed
Ready == ppc = "ready"

\* this step is a call of the method op on the constructed profile
Calls(op) == ncalls' = ncalls + 1 /\ last'.op = op

\* a port, an ngrokid is given
Given(v) == IntTruthy(v)

\* the argument combinations change_domain has to reject
IllegalDomainArgs(c) ==
    \/ ~InSeq(AllDomains(InfoOf(api_name)), c.domain)
    \/ c.domain /= "local" /\ (Given(c.port) \/ Given(c.ngrokid))
    \/ c.domain = "local" /\ ~Given(c.port) /\ ~Given(c.ngrokid)

\* the path of the url, without its leading '/'
UrlPath(u) == Lstrip(Urlparse(u).path)

\* the production path of the profile
ProductionPath(info) == IF info.api THEN info.base \o <<"/", "api">> ELSE info.base

-----------------------------------------------------------------------------
(* C11: change_domain with a domain that is not a domain or mirror of the  *)
(* profile nor 'local', with a port or ngrokid for a domain other than     *)
(* 'local', or with 'local' and neither port nor ngrokid, raises a         *)
(* ValueError and leaves current_domain, url and auth_type as they were.   *)
C11_IllegalDomainRejected ==
    [][(Calls("change_domain") /\ IllegalDomainArgs(last'))
       => /\ api_exc'.type = "ValueError"
          /\ current_domain' = current_domain
          /\ url' = url
          /\ auth_type' = auth_type]_vars

\* change_domain('local') without port and ngrokid was rejected on a profile that an
\* earlier call had moved to another domain
C11_Witness ==
    /\ Ready
    /\ ncalls >= 2
    /\ last.op = "change_domain"
    /\ last.domain = "local" /\ ~Given(last.port) /\ ~Given(last.ngrokid)
    /\ api_exc.type = "ValueError"
    /\ current_domain.key = "dr15"

-----------------------------------------------------------------------------
-----------------------------------------------------------------------------
(* C13: after change_domain('local', port=p) the url has the scheme http   *)
(* and the host localhost:p, after change_domain('local', ngrokid=n) the   *)
(* host n.ngrok.io, and the path of the url is the path before the call.   *)
C13_LocalUrl ==
    [][(Calls("change_domain") /\ last'.domain = "local"
        /\ Given(last'.port) /= Given(last'.ngrokid))
       => /\ api_exc' = NoExc
          /\ Urlparse(url').scheme = <<"http">>
          /\ Urlparse(url').netloc =
                (IF Given(last'.port) THEN <<"localhost:" \o last'.port>>
                 ELSE <<last'.ngrokid \o ".ngrok.io">>)
          /\ Urlparse(url').path = Urlparse(url).path]_vars

\* change_domain('local', port=5000) on a profile that is on its test path
C13_Witness ==
    /\ Ready
    /\ last.op = "change_domain" /\ last.domain = "local"
    /\ last.port = "5000" /\ last.ngrokid = None
    /\ url = <<"http", "://", "localhost:5000", "/", "test", "/", "marvin", "/", "api">>

-----------------------------------------------------------------------------
(* C14: change_domain is idempotent: a change_domain that succeeded,       *)
(* called again with the same arguments, succeeds and leaves url,          *)
(* current_domain and auth_type as the first call set them.                *)
C14_ChangeDomainIdempotent ==
    [][(Calls("change_domain") /\ last.op = "change_domain" /\ api_exc = NoExc
        /\ last' = last)
       => /\ api_exc' = NoExc
          /\ url' = url
          /\ current_domain' = current_domain
          /\ auth_type' = auth_type]_vars

\* change_domain('dr15') was called twice in a row on a profile on its test path
C14_Witness ==
    /\ Ready
    /\ last.op = "change_domain" /\ last.domain = "dr15"
    /\ repeated
    /\ api_exc = NoExc
    /\ url = <<"https", "://", "dr15.sdss.org", "/", "test", "/", "marvin", "/", "api">>

-----------------------------------------------------------------------------
(* C15: in every state of a constructed profile current_domain is one of   *)
(* the domains or mirrors of the profile or 'local', and url is the url    *)
(* construct_url computes of current_domain and the test and public flags  *)
(* most recently selected: scheme, host and path agree.                    *)
C15_UrlDerivable ==
    Ready =>
        /\ current_domain.kind = "Domain"
        /\ InSeq(AllDomains(InfoOf(api_name)), current_domain.key)
        /\ ConstructUrl(current_domain, InfoOf(api_name), sel.test, sel.public) =
               [exc |-> NoExc, url |-> url]

-----------------------------------------------------------------------------
(* C16, as stated: with the stems test, public and the affix prefix,       *)
(* change_path(test=True, public=True) gives the path test/public/<base>,  *)
(* one flag alone gives <flag>/<base>, and no flag gives <base>.           *)
C16_TestBeforePublic ==
    (Ready /\ last.op = "change_path"
       /\ InfoOf(api_name).stems = [test |-> "test", public |-> "public", affix |-> "prefix"])
    => UrlPath(url) =
          (IF FlagTruthy(last.test) THEN <<"test", "/">> ELSE Empty)
          \o (IF FlagTruthy(last.public) THEN <<"public", "/">> ELSE Empty)
          \o ProductionPath(InfoOf(api_name))

(* C16, amended: with both flags the path is public/test/<base>, the       *)
(* public stem in front of the test stem; one flag alone gives             *)
(* <flag>/<base>, and no flag gives <base>, whatever the path was before.  *)
C16_PublicBeforeTest ==
    (Ready /\ last.op = "change_path"
       /\ InfoOf(api_name).stems = [test |-> "test", public |-> "public", affix |-> "prefix"])
    => UrlPath(url) =
          (IF FlagTruthy(last.public) THEN <<"public", "/">> ELSE Empty)
          \o (IF FlagTruthy(last.test) THEN <<"test", "/">> ELSE Empty)
          \o ProductionPath(InfoOf(api_name))

\* change_path(test=True, public=True) on the profile marvin
C16_Witness ==
    /\ Ready
    /\ last.op = "change_path" /\ last.test = "True" /\ last.public = "True"
    /\ UrlPath(url) = <<"public", "/", "test", "/", "marvin", "/", "api">>

\* change_path() on a profile that had both stems in its path
C16_WitnessReset ==
    /\ Ready
    /\ last.op = "change_path" /\ last.test = None /\ last.public = None
    /\ repeated = FALSE /\ ncalls >= 2
    /\ UrlPath(url) = <<"marvin", "/", "api">>

-----------------------------------------------------------------------------
(* C17: change_path changes the path of the url only: the scheme and the   *)
(* host of the url, current_domain and auth_type are after the call what   *)
(* they were before it.                                                    *)
C17_ChangePathFrame ==
    [][Calls("change_path")
       => /\ Urlparse(url').scheme = Urlparse(url).scheme
          /\ Urlparse(url').netloc = Urlparse(url).netloc
          /\ current_domain' = current_domain
          /\ auth_type' = auth_type]_vars

\* change_path(test=True) on a profile on localhost:5000
C17_Witness ==
    /\ Ready
    /\ last.op = "change_path" /\ last.test = "True"
    /\ url = <<"http", "://", "localhost:5000", "/", "test", "/", "marvin", "/", "api">>
    /\ current_domain.key = "local"

-----------------------------------------------------------------------------
(* C18: in every state of a constructed profile auth_type is the declared  *)
(* authentication type of the profile when the current domain is neither   *)
(* public nor local, and None on a public domain and on 'local'; a request *)
(* made while auth_type is None carries no Authorization header.           *)
C18_AuthRequired ==
    Ready =>
        /\ auth_type = (IF current_domain.public \/ current_domain.key = "local"
                        THEN None ELSE InfoOf(api_name).auth)
        /\ (last.op = "request" /\ auth_type = None) => headers = None

\* a request of a profile that declares token authentication, on a public domain
C18_Witness ==
    /\ Ready
    /\ InfoOf(api_name).auth = "token"
    /\ current_domain.public
    /\ last.op = "request"
    /\ headers = None

\* a request of the same profile on a domain that is not public
C18_WitnessToken ==
    /\ Ready
    /\ auth_type = "token"
    /\ last.op = "request"
    /\ headers = "{'Authorization': 'Bearer <token>'}"

-----------------------------------------------------------------------------
-----------------------------------------------------------------------------
(* C20: identify_api_from_url(url) returns the service with the longest    *)
(* base that the path of the url contains, and the key of the domain whose *)
(* hostname is the host of the url; when the path contains the base of no  *)
(* service it returns (None, None) and raises nothing.                     *)

\* len(part)
PartLen(part) ==
    CASE part = "marvin" -> 6
      [] part = "api" -> 3
      [] part = "/" -> 1

\* len(s)
RECURSIVE StrLen(_)
StrLen(s) == IF s = Empty THEN 0 ELSE PartLen(Head(s)) + StrLen(Tail(s))

\* the services of the catalog with a base that the path of u contains
Matching(u) ==
    {apis[i] : i \in {j \in 1..Len(apis) : Contains(Urlparse(u).path, InfoOf(apis[j]).base)}}

\* the key of the domain with the host of u as its hostname, or None
HostKey(u) ==
    LET keys == {DomainKeys[i] : i \in {j \in 1..Len(DomainKeys) :
                     <<DomainOf(DomainKeys[j]).name>> = Urlparse(u).netloc}}
    IN  IF keys = {} THEN None ELSE CHOOSE k \in keys : TRUE

C20_LongestBase ==
    (Ready /\ last.op = "identify_api_from_url" /\ StartsWithHttp(ident.url))
    => /\ api_exc = NoExc
       /\ IF Matching(ident.url) = {}
          THEN ident.api = None /\ ident.domain = None
          ELSE /\ ident.api \in Matching(ident.url)
               /\ \A m \in Matching(ident.url) :
                      StrLen(InfoOf(m).base) <= StrLen(InfoOf(ident.api).base)
               /\ ident.domain = HostKey(ident.url)

-----------------------------------------------------------------------------
(* C21: construct_route(route) appends the route to the base url of the    *)
(* profile: scheme and host are those of the base url, and the path is the *)
(* base path, once, followed by the rest of the route; the rest of a route *)
(* is the route without its leading '/' and, when it begins with the base  *)
(* path (with or without a leading '/'), without that base path.           *)

\* the route without a leading '/' and without the base path it begins with
RouteRest(base, route) ==
    LET b == Lstrip(base)
        r == Lstrip(route)
    IN  IF b /= Empty /\ StartsWith(r, b) THEN Lstrip(SubSeq(r, Len(b) + 1, Len(r)))
        ELSE r

\* the base url with the rest of the route behind its path
Appended(u, route) ==
    LET e == Urlparse(u)
        rest == RouteRest(e.path, route)
    IN  Urlunparse([scheme |-> e.scheme, netloc |-> e.netloc,
                    path |-> IF rest = Empty THEN e.path
                             ELSE e.path \o <<"/">> \o rest])

C21_RouteAppended ==
    [][Calls("construct_route") => routed'.url = Appended(url, routed'.route)]_vars

-----------------------------------------------------------------------------
(* C28: after every successful construction the mode agrees with the       *)
(* origin: mode is 'local' exactly when data_origin is 'file' or 'db' and  *)
(* 'remote' exactly when data_origin is 'api'; mode is never left 'auto'.  *)

C28_ModeAgreesWithOrigin ==
    Constructed => /\ mode = "local" <=> data_origin \in {"file", "db"}
                   /\ mode = "remote" <=> data_origin = "api"
                   /\ mode /= "auto"

-----------------------------------------------------------------------------
(* C25: the profiles of the registry are shared: every lookup of a service *)
(* by name, through whichever manager, sees the same current domain and    *)
(* the same url.                                                           *)

C25_SharedProfiles ==
    managers /= <<>> =>
        \A h1, h2 \in Holders : \A s \in NamesOf(apis) :
            /\ managers[h1].apis[s].current_domain = managers[h2].apis[s].current_domain
            /\ managers[h1].apis[s].url = managers[h2].apis[s].url

-----------------------------------------------------------------------------
(* C29: constructing an ApiHandler from a url that starts with 'http'      *)
(* never raises and sets handler.url to that url; a profile of the manager *)
(* changes only if it is the identified service and the host of the url is *)
(* one of its domains or mirrors, and never for the bare local host.       *)

\* this step constructs an ApiHandler from a url that starts with 'http'
HandlerOfUrl ==
    rcalls' = rcalls + 1 /\ rlast'.op = "ApiHandler" /\ StartsWithHttp(rlast'.arg)

C29_HandlerFromUrl ==
    [][HandlerOfUrl =>
        /\ rlast'.exc = NoExc
        /\ handler'.url = rlast'.arg
        /\ \A s \in NamesOf(apis) :
              managers'["manager"].apis[s] /= managers["manager"].apis[s]
              => /\ s = handler'.api
                 /\ HostKey(rlast'.arg) /= "local"
                 /\ InSeq(AllDomains(InfoOf(s)), HostKey(rlast'.arg))]_vars

-----------------------------------------------------------------------------
(* C24: after every read of the access property the release of the         *)
(* resolver is that of the owner (the lower-cased name of a public data    *)
(* release, 'sdsswork' otherwise); a resolver built for another release is *)
(* replaced by a new one, and the owner keeps the one resolver.            *)

\* the release of the resolver that corresponds to the release r of an owner
ResolverRelease(r) == IF r \in {"DR15", "DR16"} THEN Lower(r) ELSE "sdsswork"

\* this step reads the access property
ReadsAccess == acalls' = acalls + 1 /\ alast' = "access"

C24_AccessScopedToRelease ==
    [][ReadsAccess =>
        /\ access'.release = ResolverRelease(arelease')
        /\ (access /= NoAccess /\ access.release /= ResolverRelease(arelease))
           => access'.serial > access.serial]_vars

\* a read has replaced the resolver of another release
C24_Witness ==
    /\ alast = "access"
    /\ access.serial = 2
    /\ nbuilt = 2
    /\ access.release = "dr15"

-----------------------------------------------------------------------------
(* C22: the token of a service is acquired once: after a get_token that    *)
(* returned a token, no call sends another login exchange.                 *)

C22_LoginOnce ==
    [][(clast = "get_token" /\ token.exc = NoExc /\ Truthy(token.ret))
       => logins' = logins]_vars

-----------------------------------------------------------------------------
(* C23: a refresh sends the kept refresh token to the refresh route and    *)
(* replaces the access token only; without a kept refresh token, or when   *)
(* the exchange fails, it raises an auth error and the kept tokens are     *)
(* unchanged.                                                              *)

\* this step calls refresh_auth_token
Refreshes == ccalls' = ccalls + 1 /\ clast' = "refresh"

C23_RefreshReplacesAccessOnly ==
    [][Refreshes =>
        IF token'.exc = NoExc
        THEN /\ Truthy(token_cache.refresh)
             /\ token_cache'.refresh = token_cache.refresh
             /\ token_cache'.access = token'.ret
             /\ Truthy(token'.ret)
        ELSE /\ token'.exc.type = "AuthError"
             /\ token_cache' = token_cache]_vars

\* a refresh has replaced the access token that was saved
C23_Witness ==
    /\ clast = "refresh"
    /\ token.exc = NoExc
    /\ token_cache = [access |-> "a2", refresh |-> "r0"]

\* a refresh without a refresh token has raised
C23_WitnessNone ==
    /\ clast = "refresh"
    /\ token.exc.type = "AuthError"
    /\ token_cache.refresh = None

-----------------------------------------------------------------------------
(* C26: given the same requests, the asynchronous client yields per call   *)
(* the same outcome as the synchronous client: the same data or the same   *)
(* error, a second request on the same client included.                    *)

C26_AsyncAsSync ==
    clast = "request" =>
        /\ clients.async.exc = clients.sync.exc
        /\ clients.async.data = clients.sync.data

-----------------------------------------------------------------------------
(* C27: a failure of an http call, a request error or an error status, in  *)
(* the request of either client or in send_post_request, reaches the       *)
(* caller as a BrainError and never as an exception of httpx.              *)

\* the exception e is one of httpx
OfHttpx(e) == e.type \in {"HTTPStatusError", "RequestError"}

C27_HttpFailuresWrapped ==
    /\ clast = "request" => ~OfHttpx(clients.sync.exc) /\ ~OfHttpx(clients.async.exc)
    /\ clast = "get_token" => ~OfHttpx(token.exc)

-----------------------------------------------------------------------------
(* C30: an error raised in a with block of a client, or of a Brain,        *)
(* reaches the caller of the block, after the object has been closed.      *)

C30_WithPropagates ==
    (clast = "with" /\ block.raised /= NoExc)
    => block.closed /\ block.propagated = block.raised

====
